---- MODULE Spec2Model ----
(***************************************************************************)
(* ReadWrite workload (fdbserver/workloads/ReadWrite.actor.cpp).           *)
(*                                                                         *)
(* Time is counted in ticks of 1/8 second, so that the constructor's       *)
(* testDuration * 0.125 and metricsDuration * 0.75 are exact on whole      *)
(* seconds.  A uniform draw of random01() is a rational r / DrawGrid and   *)
(* every other real number of the code (alpha, sweepAlpha) is a rational   *)
(* <<numerator, denominator>>.  A latency reservoir (ContinuousSample) is  *)
(* represented by the number of samples offered to it since its last       *)
(* clear().                                                                *)
(***************************************************************************)
EXTENDS Integers, Sequences, FiniteSets, TLC

(* ------------------------------ bounds -------------------------------- *)
MaxTransactions == 2
MaxFaults == 1
DrawGrid == 10
MaxTestSeconds == 10
MaxSweepDuration == 6
MaxSweepCount == 4
MaxVersion == 2
HotGrid == 4
MaxNodes == 4
SampleCapacity == 2
MaxOffers == 4
IntBits == 3

(* ----------------------------- constants ------------------------------ *)
invalidVersion == -1

\* Two concurrent randomReadWriteClient actors, clientIndex 0 and 1.
Actors == 0 .. 1
Draws == 0 .. (DrawGrid - 1)
Seconds(s) == 8 * s
HalfSeconds(h) == 4 * h

VARIABLES
    opt,               \* the options read by the constructor (immutable)
    metricsStart, metricsDuration, clientBegin,
    now,               \* the clock, now()
    aTransactions, bTransactions, retries,
    latencies, readLatencies, commitLatencies, GRVLatencies, fullReadLatencies,
    pc,                \* where each randomReadWriteClient actor waits
    startTime, tstart, aTransaction, writes, keys,
    issued, readsDone, readRecord,
    err,               \* the error caught by the attempt, handed to tr.onError
    successRetries,    \* transactionSuccessMetric->retries (one shared record)
    iter,              \* loop iterations begun so far, by all actors
    tx,                \* per-transaction bookkeeping of store calls and records
    faults,            \* errors the store has reported so far
    startResult,       \* the future returned by start()
    failedInStart,     \* actors that threw while start() was still pending
    checked,           \* check() has run
    nextRV, lastRV,    \* the statics of getInconsistentReadVersion
    storeVersion,      \* the store's current read version
    refreshes,         \* getNextRV actors started so far
    running,           \* the getNextRV actors that have not yet ended
    completed,         \* getNextRV actors that have returned a version
    waitsOn,           \* the getNextRV actor whose future each actor waits on
    version,           \* the read version each actor's transaction was given
    grvWait,           \* how each actor's last read-version request was answered
    alphaLog,          \* sweepAlpha results by elapsed time
    typeLog,           \* transaction type chosen by each draw
    probe,             \* the last shouldRecord() decision
    periodicMetrics,   \* the snapshots appended by tracePeriodically
    last_ops,          \* tracePeriodically's operation count at its previous tick
    elapsed,           \* tracePeriodically's elapsed time at its next tick
    constructed,       \* "pending", then "ok" or "failed" once the constructor has run
    keyLog,            \* the branch and the result of the last getRandomKey() call
    blockLog,          \* the key indexes of the last read or write block built
    gate,              \* the draws the last loop iteration compared with sweepAlpha
    sample,            \* one latency reservoir with the samples it retains
    values,            \* per actor: the values chosen for the writes of the transaction
    written            \* per actor: the keys the current attempt has set

vars == << opt, metricsStart, metricsDuration, clientBegin, now,
           aTransactions, bTransactions, retries,
           latencies, readLatencies, commitLatencies, GRVLatencies, fullReadLatencies,
           pc, startTime, tstart, aTransaction, writes, keys,
           issued, readsDone, readRecord, err, successRetries, iter, tx, faults,
           startResult, failedInStart, checked,
           nextRV, lastRV, storeVersion, refreshes, running, completed, waitsOn,
           version, grvWait,
           alphaLog, typeLog, probe, periodicMetrics, last_ops, elapsed,
           constructed, keyLog, blockLog, gate, sample, values, written >>

counterVars == << aTransactions, bTransactions, retries >>
reservoirVars == << latencies, readLatencies, commitLatencies, GRVLatencies, fullReadLatencies >>
configVars == << opt, metricsStart, metricsDuration, clientBegin >>
rvVars == << nextRV, lastRV, storeVersion, refreshes, running, completed >>
traceVars == << periodicMetrics, last_ops, elapsed >>
recordVars == << alphaLog, typeLog, probe, traceVars, constructed, keyLog, blockLog, gate,
                sample >>
writeVars == << values, written >>
logVars == << recordVars, writeVars >>
harnessVars == << startResult, failedInStart, checked >>
actorVars == << pc, startTime, tstart, aTransaction, writes, keys, issued, readsDone,
                readRecord, err, successRetries, iter, tx, faults, waitsOn, version, grvWait >>

(* ------------------------- rational arithmetic ------------------------ *)
RatLess(a, b) == a[1] * b[2] < b[1] * a[2]
RatEq(a, b) == a[1] * b[2] = b[1] * a[2]
RatLeq(a, b) == a[1] * b[2] <= b[1] * a[2]
Draw01(r) == << r, DrawGrid >>

(* --------------------------- the constructor -------------------------- *)
\* Defaults of getOption() in the constructor.
DefaultOptions ==
    [ testDuration |-> Seconds(10),
      actorCount |-> Cardinality(Actors),
      clientId |-> 0,
      clientCount |-> 1,
      readsPerTransactionA |-> 10,
      writesPerTransactionA |-> 0,
      readsPerTransactionB |-> 1,
      writesPerTransactionB |-> 9,
      alpha |-> << 1, 10 >>,
      extraReadConflictRangesPerTransaction |-> 0,
      extraWriteConflictRangesPerTransaction |-> 0,
      metricsStart |-> 0,
      metricsDuration |-> Seconds(10),
      discardEdgeMeasurements |-> TRUE,
      dependentReads |-> FALSE,
      enableReadLatencyLogging |-> FALSE,
      periodicLoggingInterval |-> Seconds(5),
      cancelWorkersAtDuration |-> TRUE,
      inconsistentReads |-> FALSE,
      rampUpLoad |-> FALSE,
      rampSweepCount |-> 1,
      rampTransactionType |-> FALSE,
      rampUpConcurrency |-> FALSE,
      hotKeyFraction |-> << 0, 1 >>,
      hotTrafficFraction |-> << 0, 1 >>,
      adjacentReads |-> FALSE,
      adjacentWrites |-> FALSE,
      nodeCount |-> MaxNodes,
      minValueBytes |-> 1,
      maxValueBytes |-> 1 ]

\* metricsStart and metricsDuration as the constructor leaves them.
ConstructedMetricsStart(o) ==
    IF o.discardEdgeMeasurements
    THEN o.metricsStart + (o.testDuration \div 8)
    ELSE o.metricsStart

\* metricsDuration moved by the edge discard but not scaled.
MetricsDurationUnscaled(o) == o.metricsDuration

ConstructedMetricsDuration(o) ==
    IF o.discardEdgeMeasurements
    THEN (o.metricsDuration * 3) \div 4
    ELSE o.metricsDuration

\* The constructor without ASSERT( hotKeyFraction <= hotTrafficFraction ).
ConstructorAssertsWithoutOrder(o) ==
    /\ o.rampUpConcurrency => o.rampSweepCount = 2
    /\ RatLeq(<< 0, 1 >>, o.hotKeyFraction) /\ RatLeq(o.hotTrafficFraction, << 1, 1 >>)

\* if (rampUpConcurrency) ASSERT( rampSweepCount == 2 )
\* ASSERT( hotKeyFraction >= 0 && hotTrafficFraction <= 1 )
\* ASSERT( hotKeyFraction <= hotTrafficFraction )
ConstructorAsserts(o) ==
    /\ o.rampUpConcurrency => o.rampSweepCount = 2
    /\ RatLeq(<< 0, 1 >>, o.hotKeyFraction) /\ RatLeq(o.hotTrafficFraction, << 1, 1 >>)
    /\ RatLeq(o.hotKeyFraction, o.hotTrafficFraction)

\* forceHotProbability = (hotTrafficFraction - hotKeyFraction) / (1 - hotKeyFraction),
\* as numerator and denominator; the denominator is 0 when hotKeyFraction is 1.
forceHotProbability(o) ==
    LET k == o.hotKeyFraction
        t == o.hotTrafficFraction
    IN << (t[1] * k[2] - k[1] * t[2]) * k[2], (k[2] - k[1]) * t[2] * k[2] >>

\* forceHotProbability && random01() < forceHotProbability; a comparison with
\* the 0/0 of hotKeyFraction = 1 is false.
TakesHotBranch(o, r) ==
    LET p == forceHotProbability(o)
    IN p[2] # 0 /\ p[1] # 0 /\ RatLess(Draw01(r), p)

\* What a division by a zero hotKeyFraction, or a draw from an empty range, may
\* leave in the returned int64: any index, inside the key space or outside it.
UndefinedIndexes(n) == -1 .. n

\* getRandomKey(n) with r the random01() draw: the results it can return.
\* randomInt64( 0, n*hotKeyFraction ) / hotKeyFraction truncates twice.
getRandomKey(o, n, r) ==
    LET k == o.hotKeyFraction
        hotCount == (n * k[1]) \div k[2]
    IN IF TakesHotBranch(o, r)
       THEN IF k[1] = 0 \/ hotCount = 0
            THEN { [ branch |-> "hot", index |-> i, defined |-> FALSE ] :
                     i \in UndefinedIndexes(n) }
            ELSE { [ branch |-> "hot", index |-> (x * k[2]) \div k[1], defined |-> TRUE ] :
                     x \in 0 .. (hotCount - 1) }
       ELSE { [ branch |-> "uniform", index |-> i, defined |-> TRUE ] : i \in 0 .. (n - 1) }

\* The indexes getRandomKey(n) can return.
RandomKeys(n) == { key.index : key \in UNION { getRandomKey(opt, n, r) : r \in Draws } }

\* An int64 stored in an int of IntBits bits (two's complement): the value
\* the conversion keeps.
ToInt(x) == ((x + 2^(IntBits - 1)) % (2^IntBits)) - 2^(IntBits - 1)

\* The key indexes of the reads of a transaction (lines 550-558).  An adjacent
\* block starts at `int startKey`, the int64 of getRandomKey narrowed to int,
\* and startKey + op is computed in int.
ReadKeyChoices(reads) ==
    IF opt.adjacentReads
    THEN { [op \in 1 .. reads |-> ToInt(ToInt(startKey) + (op - 1))] :
             startKey \in RandomKeys(opt.nodeCount - reads) }
    ELSE [1 .. reads -> RandomKeys(opt.nodeCount)]

\* The key indexes of the writes of an attempt (lines 603-611).  An adjacent
\* block starts at `int64_t startKey`.
WriteKeys(count) ==
    IF opt.adjacentWrites
    THEN { [op \in 1 .. count |-> startKey + (op - 1)] :
             startKey \in RandomKeys(opt.nodeCount - count) }
    ELSE [1 .. count -> RandomKeys(opt.nodeCount)]

\* values.push_back( self->randomValue() ) for each write: a value is modelled
\* by its length, randomInt( minValueBytes, maxValueBytes+1 ).
ValueChoices(n) == [1 .. n -> opt.minValueBytes .. opt.maxValueBytes]

(* ----------------------------- shouldRecord --------------------------- *)
shouldRecord(checkTime) ==
    LET timeSinceStart == checkTime - clientBegin
    IN  timeSinceStart >= metricsStart
        /\ timeSinceStart < (metricsStart + metricsDuration)

(* ------------------------------ sweepAlpha ---------------------------- *)
\* sweepAlpha without the reflection of odd sweeps.
sweepAlphaUnflipped(start) ==
    LET den == opt.testDuration
        numSweeps == (now - start) * opt.rampSweepCount
        currentSweep == numSweeps \div den
    IN  << numSweeps - currentSweep * den, den >>

\* sweepAlpha with the reflection on the even sweeps instead of the odd ones.
sweepAlphaFlipEven(start) ==
    LET den == opt.testDuration
        numSweeps == (now - start) * opt.rampSweepCount
        currentSweep == numSweeps \div den
        alpha == numSweeps - currentSweep * den
    IN  IF currentSweep % 2 = 0 THEN << den - alpha, den >> ELSE << alpha, den >>

\* numSweeps = (now() - startTime) / (testDuration / rampSweepCount), as a
\* rational over the denominator testDuration.
sweepAlpha(start) ==
    LET den == opt.testDuration
        numSweeps == (now - start) * opt.rampSweepCount
        currentSweep == numSweeps \div den
        alpha == numSweeps - currentSweep * den
    IN  IF currentSweep % 2 = 1 THEN << den - alpha, den >> ELSE << alpha, den >>

(* ------------------------ transaction construction -------------------- *)
\* The comparison the other way round: random01() < alpha.
ChooseATransactionBelow(r, a) == RatLess(Draw01(r), a)

\* bool aTransaction = random01() > (rampTransactionType ? sweepAlpha : alpha)
ChooseATransaction(r, a) == RatLess(a, Draw01(r))

\* rampTransactionType ? sweepAlpha(startTime) : alpha
TypeAlpha(w) == IF opt.rampTransactionType THEN sweepAlpha(startTime[w]) ELSE opt.alpha

ReadsOf(isA) == IF isA THEN opt.readsPerTransactionA ELSE opt.readsPerTransactionB
WritesOf(isA) == IF isA THEN opt.writesPerTransactionA ELSE opt.writesPerTransactionB
ExtraReadConflictRanges(wr) ==
    IF wr # 0 THEN opt.extraReadConflictRangesPerTransaction ELSE 0
ExtraWriteConflictRanges(wr) ==
    IF wr # 0 THEN opt.extraWriteConflictRangesPerTransaction ELSE 0

\* The load test with <= in place of <.
LoadGateAtMost(w, r) ==
    (~opt.rampUpLoad) \/ RatLeq(Draw01(r), sweepAlpha(startTime[w]))

\* !rampUpLoad || random01() < sweepAlpha(startTime)
LoadGate(w, r) == (~opt.rampUpLoad) \/ RatLess(Draw01(r), sweepAlpha(startTime[w]))

\* The concurrency ramp's start delay (line 523) has run out:
\* now() - startTime >= testDuration/2 * (k/W + pid/P/W)
RampStart(w) ==
    LET W == opt.actorCount
        P == opt.clientCount
    IN  2 * P * W * (now - startTime[w]) >= opt.testDuration * (w * P + opt.clientId)

\* The stop test with the offset added instead of subtracted.
RampStopOffsetAdded(w) ==
    LET W == opt.actorCount
        P == opt.clientCount
    IN  2 * P * W * (now - startTime[w]) >= opt.testDuration * (2 * P * W + (w * P + opt.clientId))

\* The concurrency ramp's stop test of the worker loop:
\* now() - startTime >= testDuration/2 * (2 - (k/W + pid/P/W))
RampStop(w) ==
    LET W == opt.actorCount
        P == opt.clientCount
    IN  2 * P * W * (now - startTime[w]) >= opt.testDuration * (2 * P * W - (w * P + opt.clientId))

NoTx ==
    [ live |-> FALSE, done |-> FALSE, beganIn |-> FALSE, endedIn |-> FALSE, late |-> FALSE,
      attempts |-> 0,
      commitFailures |-> 0, otherFailures |-> 0, readsBeforeFailure |-> 0,
      firstWritten |-> << >>,
      retryIncs |-> 0, commitSamples |-> 0, successIncs |-> 0, records |-> 0,
      setCalls |-> 0, readConflictCalls |-> 0, writeConflictCalls |-> 0,
      commitCalls |-> 0 ]

Add(n, b) == IF b THEN n + 1 ELSE n
(* ------------------------------- errors ------------------------------- *)
RetryableError == "not_committed"
FatalError == "client_invalid_operation"
Errors == { RetryableError, FatalError }
\* tr.onError(e) returns for the errors the store retries and rethrows the rest.
OnErrorRetries(e) == e = RetryableError

Live(p) == p \in { "ramp", "pace", "grv", "reads", "commit", "onError", "never" }
Cancelled(f, S, d) == [a \in Actors |-> IF a \in S THEN d ELSE f[a]]

(* ---------------------- getInconsistentReadVersion -------------------- *)
\* nextRV is the future of the getNextRV actor started last; lastRV the version
\* last taken from a finished one.
NoRefresh == [ state |-> "invalid", v |-> invalidVersion, id |-> 0 ]

\* The test of line 50 without its isReady() half.
AlwaysRefresh == TRUE

\* if (!nextRV.isValid() || nextRV.isReady())   "if no getNextRV() running"
NoGetNextRVRunning == nextRV.state # "pending"

\* if (nextRV.isValid()) lastRV = nextRV.get();  get() throws the error of a
\* getNextRV that ended with one
HarvestThrows == nextRV.state = "error"
\* Line 51 left out: the finished refresh is never taken into lastRV.
LastRVNeverTaken == lastRV

\* Line 51 run for the first finished refresh only.
LastRVTakenOnce ==
    IF lastRV = invalidVersion /\ nextRV.state = "ready" THEN nextRV.v ELSE lastRV

LastRVAfterCall ==
    IF NoGetNextRVRunning /\ nextRV.state = "ready" THEN nextRV.v ELSE lastRV

\* A getNextRV actor still running whose future nobody holds any more is cancelled
\* when nextRV is assigned.
Dropped ==
    IF nextRV.state = "pending" /\ \A a \in Actors : waitsOn[a] # nextRV.id
    THEN { nextRV.id } ELSE {}

(* The top of the retry loop (lines 581-584): the read version is asked for;   *)
(* the error of the catch block that led here, if any, is out of scope.        *)
(* With inconsistentReads the cached version, when there is one, is a ready    *)
(* future and the actor runs on to readOp without suspending (lines 585-594).  *)
\* A readOp that hands every key to the store before it waits.
IssueAllReads(w) == keys[w]

\* The reads readOp has issued when it first waits (lines 411-431): all of
\* them, or keys[0] alone with dependentReads; none for an empty key list.
IssueReads(w) == IF opt.dependentReads /\ keys[w] > 0 THEN 1 ELSE keys[w]

BeginAttempt(w) ==
    IF ~opt.inconsistentReads
    THEN /\ pc' = [pc EXCEPT ![w] = "grv"]
         /\ grvWait' = [grvWait EXCEPT ![w] = "waited"]
         /\ issued' = [issued EXCEPT ![w] = 0]
         /\ readsDone' = [readsDone EXCEPT ![w] = 0]
         /\ err' = [err EXCEPT ![w] = "none"]
         /\ UNCHANGED << nextRV, lastRV, refreshes, running, waitsOn, version,
                         readRecord, GRVLatencies >>
    ELSE IF NoGetNextRVRunning /\ HarvestThrows
    THEN /\ pc' = [pc EXCEPT ![w] = "onError"]
         /\ err' = [err EXCEPT ![w] = nextRV.v]
         /\ grvWait' = [grvWait EXCEPT ![w] = "threw"]
         /\ issued' = [issued EXCEPT ![w] = 0]
         /\ readsDone' = [readsDone EXCEPT ![w] = 0]
         /\ UNCHANGED << nextRV, lastRV, refreshes, running, waitsOn, version, readRecord,
                         GRVLatencies >>
    ELSE /\ lastRV' = LastRVAfterCall
         /\ nextRV' = IF NoGetNextRVRunning
                      THEN [ state |-> "pending", v |-> invalidVersion, id |-> refreshes + 1 ]
                      ELSE nextRV
         /\ refreshes' = IF NoGetNextRVRunning THEN refreshes + 1 ELSE refreshes
         /\ running' = IF NoGetNextRVRunning
                       THEN (running \ Dropped) \cup { refreshes + 1 }
                       ELSE running
         /\ readsDone' = [readsDone EXCEPT ![w] = 0]
         /\ err' = [err EXCEPT ![w] = "none"]
         /\ IF lastRV' = invalidVersion
            THEN /\ pc' = [pc EXCEPT ![w] = "grv"]
                 /\ grvWait' = [grvWait EXCEPT ![w] = "waited"]
                 /\ waitsOn' = [waitsOn EXCEPT ![w] = nextRV'.id]
                 /\ issued' = [issued EXCEPT ![w] = 0]
                 /\ UNCHANGED << version, readRecord, GRVLatencies >>
            ELSE /\ pc' = [pc EXCEPT ![w] = "reads"]
                 /\ grvWait' = [grvWait EXCEPT ![w] = "immediate"]
                 /\ version' = [version EXCEPT ![w] = lastRV']
                 /\ issued' = [issued EXCEPT ![w] = IssueReads(w)]
                 /\ readRecord' = [readRecord EXCEPT ![w] = shouldRecord(now)]
                 /\ GRVLatencies' = Add(GRVLatencies, shouldRecord(now))
                 /\ UNCHANGED waitsOn

(* Lines 585-594 for the actors of S, whose read-version wait returned v.   *)
ResumeAfterGRV(S, v) ==
    /\ pc' = [w \in Actors |-> IF w \in S THEN "reads" ELSE pc[w]]
    /\ version' = [w \in Actors |-> IF w \in S /\ opt.inconsistentReads THEN v ELSE version[w]]
    /\ waitsOn' = [w \in Actors |-> IF w \in S THEN 0 ELSE waitsOn[w]]
    /\ issued' = [w \in Actors |-> IF w \in S THEN IssueReads(w) ELSE issued[w]]
    /\ readRecord' = [w \in Actors |-> IF w \in S THEN shouldRecord(now) ELSE readRecord[w]]
    /\ GRVLatencies' = IF shouldRecord(now) THEN GRVLatencies + Cardinality(S) ELSE GRVLatencies

(* ------------------------- randomReadWriteClient ---------------------- *)
\* Lines 522-525: with rampUpConcurrency the actor first waits for its start
\* delay, then enters the loop.
RampDelayReturn(w) ==
    /\ pc[w] = "ramp"
    /\ RampStart(w)
    /\ pc' = [pc EXCEPT ![w] = "pace"]
    /\ UNCHANGED << configVars, now, counterVars, reservoirVars, startTime, tstart, aTransaction,
                    writes, keys, issued, readsDone, readRecord, err, successRetries, iter, tx,
                    faults, harnessVars, rvVars, waitsOn, version, grvWait, logVars >>

\* No random01() draw: the mark of a draw that was not made or not recorded.
NoDraw == -1

\* No iteration has compared a draw with sweepAlpha yet.
NoGate == [ w |-> NoDraw, load |-> NoDraw, type |-> NoDraw ]

\* The random01() draws of line 538: none when rampUpLoad is off, as || does
\* not evaluate its right operand.
LoadDraws == IF opt.rampUpLoad THEN Draws ELSE { NoDraw }

\* The random01() draws of line 541 that decide the type isA; they are told
\* apart only when the draw is compared with sweepAlpha.
TypeDraws(w, isA) ==
    IF opt.rampTransactionType
    THEN { r \in Draws : ChooseATransaction(r, TypeAlpha(w)) = isA }
    ELSE { NoDraw }

\* Lines 528-584: the pacing wait fires, the transaction is built and its
\* first attempt begins.
StartIteration(w) ==
    /\ pc[w] = "pace"
    /\ (opt.rampUpConcurrency /\ RampStop(w)) \/ iter < MaxTransactions
    /\ IF opt.rampUpConcurrency /\ RampStop(w)
       THEN /\ pc' = [pc EXCEPT ![w] = "never"]
            /\ UNCHANGED << gate, iter, tstart, aTransaction, writes, keys, successRetries, tx,
                            issued, readsDone, readRecord, err, version, grvWait,
                            GRVLatencies, nextRV, lastRV, refreshes, running, waitsOn,
                            writeVars >>
       ELSE /\ iter' = iter + 1
            /\ \E g \in LoadDraws :
                 IF ~LoadGate(w, g)
                 THEN /\ gate' = [ w |-> w, load |-> g, type |-> NoDraw ]
                      /\ UNCHANGED << pc, tstart, aTransaction, writes, keys, successRetries,
                                      tx, issued, readsDone, readRecord, err, version, grvWait,
                                      GRVLatencies, nextRV, lastRV, refreshes, running, waitsOn,
                                      writeVars >>
                 ELSE \E isA \in { ChooseATransaction(r, TypeAlpha(w)) : r \in Draws } :
                        /\ \E r \in TypeDraws(w, isA) :
                             gate' = IF opt.rampUpLoad \/ opt.rampTransactionType
                                     THEN [ w |-> w, load |-> g, type |-> r ]
                                     ELSE gate
                        /\ tstart' = [tstart EXCEPT ![w] = now]
                        /\ aTransaction' = [aTransaction EXCEPT ![w] = isA]
                        /\ keys' = [keys EXCEPT ![w] = ReadsOf(isA)]
                        /\ writes' = [writes EXCEPT ![w] = WritesOf(isA)]
                        /\ \E vs \in ValueChoices(WritesOf(isA)) :
                             values' = [values EXCEPT ![w] = vs]
                        /\ written' = [written EXCEPT ![w] = << >>]
                        /\ successRetries' = 0
                        /\ tx' = [tx EXCEPT ![w] = [NoTx EXCEPT !.live = TRUE, !.attempts = 1,
                                                            !.beganIn = shouldRecord(now),
                                                            !.late = (startResult # "running")]]
                        /\ BeginAttempt(w)
    /\ UNCHANGED << configVars, now, counterVars, latencies, readLatencies, commitLatencies,
                    fullReadLatencies, startTime, faults, harnessVars, storeVersion, completed,
                    alphaLog, typeLog, probe, traceVars, constructed, keyLog, blockLog,
                    sample >>

\* tr.getReadVersion() returns (lines 584-594)
GetReadVersionReturn(w) ==
    /\ pc[w] = "grv"
    /\ ~opt.inconsistentReads
    /\ ResumeAfterGRV({w}, invalidVersion)
    /\ UNCHANGED << configVars, now, counterVars, latencies, readLatencies, commitLatencies,
                    fullReadLatencies, startTime, tstart, aTransaction, writes, keys, readsDone,
                    err, successRetries, iter, tx, faults, harnessVars, rvVars, grvWait, logVars >>

\* A catch block that retries at once, without tr.onError(e).
CatchWithoutOnError(w, e, atCommit) ==
    /\ faults < MaxFaults
    /\ faults' = faults + 1
    /\ err' = [err EXCEPT ![w] = e]
    /\ pc' = [pc EXCEPT ![w] = "grv"]
    /\ tx' = [tx EXCEPT ![w].commitFailures = Add(@, atCommit),
                        ![w].otherFailures = Add(@, ~atCommit),
                        ![w].readsBeforeFailure = @ + readsDone[w]]

\* The catch block up to the wait on tr.onError(e) (lines 627-631)
Catch(w, e, atCommit) ==
    /\ faults < MaxFaults
    /\ faults' = faults + 1
    /\ err' = [err EXCEPT ![w] = e]
    /\ pc' = [pc EXCEPT ![w] = "onError"]
    /\ tx' = [tx EXCEPT ![w].commitFailures = Add(@, atCommit),
                        ![w].otherFailures = Add(@, ~atCommit),
                        ![w].readsBeforeFailure = @ + readsDone[w]]

GetReadVersionFail(w) ==
    /\ pc[w] = "grv"
    /\ ~opt.inconsistentReads
    /\ \E e \in Errors : Catch(w, e, FALSE)
    /\ UNCHANGED << configVars, now, counterVars, reservoirVars, startTime, tstart, aTransaction,
                    writes, keys, issued, readsDone, readRecord, successRetries, iter,
                    harnessVars, rvVars, waitsOn, version, grvWait, logVars >>

\* A success that offers its latency to the reservoir outside the window too.
RecordSuccessAlwaysSampled(w) ==
    /\ pc' = [pc EXCEPT ![w] = "pace"]
    /\ aTransactions' = Add(aTransactions, shouldRecord(now) /\ aTransaction[w])
    /\ bTransactions' = Add(bTransactions, shouldRecord(now) /\ ~aTransaction[w])
    /\ latencies' = latencies + 1

\* Lines 641-657: the success record and the counters
RecordSuccess(w) ==
    /\ pc' = [pc EXCEPT ![w] = "pace"]
    /\ aTransactions' = Add(aTransactions, shouldRecord(now) /\ aTransaction[w])
    /\ bTransactions' = Add(bTransactions, shouldRecord(now) /\ ~aTransaction[w])
    /\ latencies' = Add(latencies, shouldRecord(now))

\* The bookkeeping of a transaction that has just been recorded: what the step
\* added to the shared counters and to the commit-latency reservoir.
Recorded(t) ==
    [t EXCEPT !.done = TRUE, !.endedIn = shouldRecord(now), !.records = @ + 1,
              !.commitSamples = @ + (commitLatencies' - commitLatencies),
              !.successIncs = @ + (aTransactions' - aTransactions)
                                + (bTransactions' - bTransactions)]

\* if( shouldRecord() ) commitLatencies.addSample(commitLatency)  (lines 622-623)
RecordCommitLatency(n) == Add(n, shouldRecord(now))

\* The test of lines 636-637 negated.
RecordRetryNegated(n) == Add(n, ~shouldRecord(now))

\* if( shouldRecord() ) ++retries  (lines 636-637)
RecordRetry(n) == Add(n, shouldRecord(now))

\* The test of line 600 made on the read count.
ReadOnlyByReads(w) == keys[w] = 0

\* if(!writes) break;  (lines 600-601)
ReadOnly(w) == writes[w] = 0

\* The keys of a retry taken from the first attempt that wrote.
WriteKeyChoicesOfFirstAttempt(w, first) ==
    IF first # << >>
    THEN { first }
    ELSE WriteKeys(writes[w])

\* The keys an attempt sets (lines 603-611): getRandomKey is called when the
\* attempt reaches its writes, whatever an earlier attempt has written.
WriteKeyChoices(w, first) == WriteKeys(writes[w])

\* A join that is over as soon as one reader has returned.
FirstReaderEndsBatch(w) == FALSE

\* wait( waitForAll( readers ) ): readers of the batch are still outstanding
\* once this one has returned.
ReadersOutstanding(w) == readsDone[w] + 1 < keys[w]

\* One read of the batch returns (logLatency); after the last one the actor
\* runs on from line 596 to the commit, or to the end of a read-only transaction.
ReadReturn(w) ==
    /\ pc[w] = "reads"
    /\ readsDone[w] < issued[w]
    /\ readsDone' = [readsDone EXCEPT ![w] = @ + 1]
    /\ readLatencies' = Add(readLatencies, readRecord[w])
    /\ IF ReadersOutstanding(w)
       THEN /\ issued' = [issued EXCEPT ![w] = IF opt.dependentReads THEN @ + 1 ELSE @]
            /\ UNCHANGED << pc, tx, fullReadLatencies, aTransactions, bTransactions, latencies,
                            commitLatencies, written >>
       ELSE /\ fullReadLatencies' = Add(fullReadLatencies, shouldRecord(now))
            /\ UNCHANGED issued
            /\ IF ReadOnly(w)
               THEN /\ RecordSuccess(w)
                    /\ UNCHANGED << commitLatencies, written >>
                    /\ tx' = [tx EXCEPT ![w] = Recorded(@)]
               ELSE /\ pc' = [pc EXCEPT ![w] = "commit"]
                    /\ \E ks \in WriteKeyChoices(w, tx[w].firstWritten) :
                         written' = [written EXCEPT ![w] = ks]
                    /\ tx' = [tx EXCEPT ![w].setCalls = @ + writes[w],
                                        ![w].firstWritten = IF @ = << >> THEN written'[w] ELSE @,
                                        ![w].readConflictCalls = @ + ExtraReadConflictRanges(writes[w]),
                                        ![w].writeConflictCalls = @ + ExtraWriteConflictRanges(writes[w]),
                                        ![w].commitCalls = @ + 1]
                    /\ UNCHANGED << aTransactions, bTransactions, latencies, commitLatencies >>
    /\ UNCHANGED << configVars, now, retries, GRVLatencies, startTime, tstart,
                    aTransaction, writes, keys, readRecord, err, successRetries, iter, faults,
                    harnessVars, rvVars, waitsOn, version, grvWait, recordVars, values >>

ReadFail(w) ==
    /\ pc[w] = "reads"
    /\ readsDone[w] < issued[w]
    /\ \E e \in Errors : Catch(w, e, FALSE)
    /\ UNCHANGED << configVars, now, counterVars, reservoirVars, startTime, tstart, aTransaction,
                    writes, keys, issued, readsDone, readRecord, successRetries, iter,
                    harnessVars, rvVars, waitsOn, version, grvWait, logVars >>

\* tr.commit() returns (lines 620-625, then 641-657)
CommitReturn(w) ==
    /\ pc[w] = "commit"
    /\ commitLatencies' = RecordCommitLatency(commitLatencies)
    /\ RecordSuccess(w)
    /\ tx' = [tx EXCEPT ![w] = Recorded(@)]
    /\ UNCHANGED << configVars, now, retries, readLatencies, GRVLatencies, fullReadLatencies,
                    startTime, tstart, aTransaction, writes, keys, issued, readsDone, readRecord,
                    err, successRetries, iter, faults, harnessVars, rvVars, waitsOn, version, grvWait,
                    logVars >>

CommitFail(w) ==
    /\ pc[w] = "commit"
    /\ \E e \in Errors : Catch(w, e, TRUE)
    /\ UNCHANGED << configVars, now, counterVars, reservoirVars, startTime, tstart, aTransaction,
                    writes, keys, issued, readsDone, readRecord, successRetries, iter,
                    harnessVars, rvVars, waitsOn, version, grvWait, logVars >>

\* tr.onError(e) returns, the transaction reset: lines 633-637, then the next
\* attempt (lines 581-584)
OnErrorReturn(w) ==
    /\ pc[w] = "onError"
    /\ OnErrorRetries(err[w])
    /\ successRetries' = successRetries + 1
    /\ retries' = RecordRetry(retries)
    /\ tx' = [tx EXCEPT ![w].retryIncs = @ + (retries' - retries), ![w].attempts = @ + 1]
    /\ written' = [written EXCEPT ![w] = << >>]
    /\ BeginAttempt(w)
    /\ UNCHANGED << configVars, now, aTransactions, bTransactions, latencies, readLatencies,
                    commitLatencies, fullReadLatencies, startTime, tstart, aTransaction, writes,
                    keys, iter, faults, harnessVars, storeVersion, completed, recordVars,
                    values >>
\* An actor that is cancelled, or that ends with an error, is destroyed with
\* its state variables.  S are the actors that end, F those of them that threw
\* (their last state is kept, as the error they threw carries it).  An actor
\* cancelled inside a transaction is "abandoned", one cancelled between two
\* transactions is "cancelled".
LiveActors == { a \in Actors : Live(pc[a]) }
InTransaction(p) == p \in { "grv", "reads", "commit", "onError" }

Destroy(S, F) ==
    /\ pc' = [a \in Actors |-> IF a \in F THEN "failed"
                               ELSE IF a \in S
                               THEN IF InTransaction(pc[a]) THEN "abandoned" ELSE "cancelled"
                               ELSE pc[a]]
    /\ tstart' = Cancelled(tstart, S \ F, 0)
    /\ aTransaction' = Cancelled(aTransaction, S \ F, FALSE)
    /\ writes' = Cancelled(writes, S \ F, 0)
    /\ keys' = Cancelled(keys, S \ F, 0)
    /\ issued' = Cancelled(issued, S \ F, 0)
    /\ readsDone' = Cancelled(readsDone, S \ F, 0)
    /\ readRecord' = Cancelled(readRecord, S \ F, FALSE)
    /\ err' = Cancelled(err, S \ F, "none")
    /\ version' = Cancelled(version, S \ F, invalidVersion)
    /\ grvWait' = Cancelled(grvWait, S \ F, "none")
    /\ waitsOn' = Cancelled(waitsOn, S, 0)
    /\ tx' = Cancelled(tx, S \ F, NoTx)
    /\ values' = Cancelled(values, S \ F, << >>)
    /\ written' = Cancelled(written, S \ F, << >>)

\* tr.onError(e) rethrows: the actor ends with the error.  With
\* cancelWorkersAtDuration, _start is waiting on timeout( waitForAll( clients ), ... ),
\* which then throws and drops the other clients; otherwise _start waits on
\* delay( testDuration ) alone (line 486).
OnErrorThrow(w) ==
    /\ pc[w] = "onError"
    /\ ~OnErrorRetries(err[w])
    /\ IF opt.cancelWorkersAtDuration /\ startResult = "running"
       THEN /\ startResult' = "error"
            /\ Destroy(LiveActors, {w})
       ELSE /\ Destroy({w}, {w})
            /\ UNCHANGED startResult
    /\ failedInStart' = IF startResult = "running" THEN failedInStart \cup {w} ELSE failedInStart
    /\ UNCHANGED << configVars, now, counterVars, reservoirVars, startTime, successRetries, iter,
                    faults, checked, rvVars, recordVars >>

(* -------------------------------- _start ------------------------------ *)
Deadline == clientBegin + opt.testDuration

\* The timer cancelling the workers whatever cancelWorkersAtDuration says.
StartTimeoutCancelsAlways ==
    /\ startResult = "running"
    /\ now = Deadline
    /\ startResult' = "ok"
    /\ Destroy(LiveActors, {})
    /\ UNCHANGED << configVars, now, counterVars, reservoirVars, startTime, successRetries, iter,
                    faults, failedInStart, checked, rvVars, recordVars >>

\* The timer leaving the workers alone whatever cancelWorkersAtDuration says.
StartTimeoutKeepsAlways ==
    /\ startResult = "running"
    /\ now = Deadline
    /\ startResult' = "ok"
    /\ Destroy({}, {})
    /\ UNCHANGED << configVars, now, counterVars, reservoirVars, startTime, successRetries, iter,
                    faults, failedInStart, checked, rvVars, recordVars >>

\* The timer of line 486 fires.
StartTimeout ==
    /\ startResult = "running"
    /\ now = Deadline
    /\ startResult' = "ok"
    /\ Destroy(IF opt.cancelWorkersAtDuration THEN LiveActors ELSE {}, {})
    /\ UNCHANGED << configVars, now, counterVars, reservoirVars, startTime, successRetries, iter,
                    faults, failedInStart, checked, rvVars, recordVars >>

\* check(): clients.clear() drops the actors kept by line 484 (lines 239-250)
Check ==
    /\ startResult = "ok"
    /\ ~checked
    /\ checked' = TRUE
    /\ Destroy(LiveActors, {})
    /\ metricsDuration' = IF ~opt.cancelWorkersAtDuration /\ now < metricsStart + metricsDuration
                          THEN now - metricsStart
                          ELSE metricsDuration
    /\ UNCHANGED << opt, metricsStart, clientBegin, now, counterVars, reservoirVars, startTime,
                    successRetries, iter, faults, startResult, failedInStart, rvVars,
                    recordVars >>

(* --------------------------- tracePeriodically ------------------------ *)
\* tracePeriodically is one of the clients of _start (lines 471-472): it lives
\* as long as the workers are held, by _start or by self->clients.
TraceLive ==
    /\ opt.enableReadLatencyLogging
    /\ IF opt.cancelWorkersAtDuration THEN startResult = "running" ELSE ~checked

\* delayUntil( start + elapsed ) is due; start is the time of clientBegin.
TraceDue == TraceLive /\ now >= clientBegin + elapsed

\* int64_t ops of lines 321-322
Ops ==
    aTransactions * (opt.readsPerTransactionA + opt.writesPerTransactionA)
    + bTransactions * (opt.readsPerTransactionB + opt.writesPerTransactionB)

Max(a, b) == IF a >= b THEN a ELSE b

\* The PerfMetrics pushed by one tick (lines 326-360): the tag, the operations
\* per second as a rational, and for each reservoir the samples its statistics
\* are taken from.
Snapshot ==
    [ ts |-> elapsed,
      ops |-> << Ops - last_ops, opt.periodicLoggingInterval >>,
      latencies |-> latencies,
      readLatencies |-> readLatencies,
      fullReadLatencies |-> fullReadLatencies,
      GRVLatencies |-> GRVLatencies,
      commitLatencies |-> commitLatencies ]

\* A tick that appends its snapshot whatever the recording window says.
TraceRecordsAlways == TRUE

\* recordBegin && recordEnd  (lines 323-325)
TraceRecords ==
    /\ shouldRecord(Max(now - opt.periodicLoggingInterval, clientBegin))
    /\ shouldRecord(now)

\* A tick that clears the counters with the reservoirs.
TraceCountersCleared == << 0, 0, 0 >>

\* The counters after a tick: tracePeriodically only reads them (lines 321-322).
TraceCounters == << aTransactions, bTransactions, retries >>

\* One turn of the loop of lines 312-374, from the return of delayUntil to the
\* next wait.
TracePeriodically ==
    /\ TraceDue
    /\ periodicMetrics' = IF TraceRecords THEN Append(periodicMetrics, Snapshot)
                          ELSE periodicMetrics
    /\ last_ops' = Ops
    /\ latencies' = 0 /\ readLatencies' = 0 /\ fullReadLatencies' = 0
    /\ GRVLatencies' = 0 /\ commitLatencies' = 0
    /\ aTransactions' = TraceCounters[1]
    /\ bTransactions' = TraceCounters[2]
    /\ retries' = TraceCounters[3]
    /\ elapsed' = elapsed + opt.periodicLoggingInterval
    /\ UNCHANGED << configVars, now, actorVars, harnessVars, rvVars, alphaLog, typeLog, probe,
                    constructed, keyLog, blockLog, gate,
                    sample, writeVars >>

\* Time passes; the timer of _start, the start delays of the concurrency ramp
\* and the ticks of tracePeriodically fire when they are due.
Tick ==
    /\ ~checked
    /\ now < Deadline
    /\ ~(startResult = "running" /\ now = Deadline)
    /\ \A w \in Actors : pc[w] = "ramp" => ~RampStart(w)
    /\ ~TraceDue
    /\ now' = now + 1
    /\ UNCHANGED << configVars, counterVars, reservoirVars, pc, startTime, tstart, aTransaction,
                    writes, keys, issued, readsDone, readRecord, err, successRetries, iter, tx,
                    faults, harnessVars, rvVars, waitsOn, version, grvWait, logVars >>

(* ------------------------------ getNextRV ----------------------------- *)
Waiters(id) == { w \in Actors : pc[w] = "grv" /\ waitsOn[w] = id }

\* A getNextRV actor returns the store's read version (line 43); the actors
\* waiting on its future resume.
GetNextRVReturn(id) ==
    /\ opt.inconsistentReads
    /\ id \in running
    /\ running' = running \ {id}
    /\ completed' = completed + 1
    /\ nextRV' = IF nextRV.id = id
                 THEN [ state |-> "ready", v |-> storeVersion, id |-> id ]
                 ELSE nextRV
    /\ ResumeAfterGRV(Waiters(id), storeVersion)
    /\ UNCHANGED << configVars, now, counterVars, latencies, readLatencies, commitLatencies,
                    fullReadLatencies, startTime, tstart, aTransaction, writes, keys, readsDone,
                    err, successRetries, iter, tx, faults, harnessVars, lastRV, storeVersion,
                    refreshes, grvWait, logVars >>

\* tr.onError(e) rethrows inside getNextRV (line 45); the actors waiting on its
\* future catch the error.
GetNextRVThrow(id) ==
    /\ opt.inconsistentReads
    /\ id \in running
    /\ faults < MaxFaults
    /\ faults' = faults + 1
    /\ running' = running \ {id}
    /\ nextRV' = IF nextRV.id = id
                 THEN [ state |-> "error", v |-> FatalError, id |-> id ]
                 ELSE nextRV
    /\ pc' = [w \in Actors |-> IF w \in Waiters(id) THEN "onError" ELSE pc[w]]
    /\ err' = [w \in Actors |-> IF w \in Waiters(id) THEN FatalError ELSE err[w]]
    /\ waitsOn' = [w \in Actors |-> IF w \in Waiters(id) THEN 0 ELSE waitsOn[w]]
    /\ tx' = [w \in Actors |-> IF w \in Waiters(id)
                               THEN [tx[w] EXCEPT !.otherFailures = @ + 1] ELSE tx[w]]
    /\ UNCHANGED << configVars, now, counterVars, reservoirVars, startTime, tstart, aTransaction,
                    writes, keys, issued, readsDone, readRecord, successRetries, iter,
                    harnessVars, lastRV, storeVersion, refreshes, completed, version, grvWait,
                    logVars >>

\* The store's read version advances.
StoreAdvance ==
    /\ opt.inconsistentReads
    /\ storeVersion < MaxVersion
    /\ storeVersion' = storeVersion + 1
    /\ UNCHANGED << configVars, now, counterVars, reservoirVars, pc, startTime, tstart,
                    aTransaction, writes, keys, issued, readsDone, readRecord, err,
                    successRetries, iter, tx, faults, harnessVars, nextRV, lastRV, refreshes,
                    running, completed, waitsOn, version, grvWait, logVars >>

(* ---------------------------- initial states -------------------------- *)
NoKey == [ branch |-> "none", index |-> 0, defined |-> TRUE ]

\* No block of keys has been built yet.
NoBlock == [ op |-> "none", adjacent |-> FALSE, indexes |-> << >> ]

\* An empty reservoir: nothing retained, nothing offered.
NoSamples == [ samples |-> << >>, populationSize |-> 0, offered |-> << >> ]

Launch(o) ==
    /\ ConstructorAsserts(o)
    /\ opt = o
    /\ metricsStart = ConstructedMetricsStart(o)
    /\ metricsDuration = ConstructedMetricsDuration(o)
    /\ clientBegin = 1
    /\ now = clientBegin
    /\ aTransactions = 0 /\ bTransactions = 0 /\ retries = 0
    /\ latencies = 0 /\ readLatencies = 0 /\ commitLatencies = 0
    /\ GRVLatencies = 0 /\ fullReadLatencies = 0
    /\ pc = [w \in Actors |-> IF o.rampUpConcurrency THEN "ramp" ELSE "pace"]
    /\ startTime = [w \in Actors |-> now]
    /\ tstart = [w \in Actors |-> now]
    /\ aTransaction = [w \in Actors |-> FALSE]
    /\ writes = [w \in Actors |-> 0]
    /\ keys = [w \in Actors |-> 0]
    /\ issued = [w \in Actors |-> 0]
    /\ readsDone = [w \in Actors |-> 0]
    /\ readRecord = [w \in Actors |-> FALSE]
    /\ err = [w \in Actors |-> "none"]
    /\ successRetries = 0
    /\ iter = 0
    /\ tx = [w \in Actors |-> NoTx]
    /\ faults = 0
    /\ startResult = "running"
    /\ failedInStart = {}
    /\ checked = FALSE
    /\ nextRV = NoRefresh
    /\ lastRV = invalidVersion
    /\ storeVersion = 1
    /\ refreshes = 0
    /\ running = {}
    /\ completed = 0
    /\ waitsOn = [w \in Actors |-> 0]
    /\ version = [w \in Actors |-> invalidVersion]
    /\ grvWait = [w \in Actors |-> "none"]
    /\ alphaLog = << >>
    /\ typeLog = << >>
    /\ probe = << >>
    /\ periodicMetrics = << >>
    /\ last_ops = 0
    /\ elapsed = o.periodicLoggingInterval
    /\ constructed = "ok"
    /\ keyLog = NoKey
    /\ blockLog = NoBlock
    /\ gate = NoGate
    /\ sample = NoSamples
    /\ values = [w \in Actors |-> << >>]
    /\ written = [w \in Actors |-> << >>]

\* A run of one tick that is recorded until its end: the actors work inside the
\* recording window before the deadline and outside it from the deadline on.
RunOptions ==
    { [DefaultOptions EXCEPT !.testDuration = 1,
                             !.discardEdgeMeasurements = FALSE,
                             !.metricsStart = 0,
                             !.metricsDuration = 1,
                             !.readsPerTransactionA = 1,
                             !.writesPerTransactionA = 0,
                             !.readsPerTransactionB = 1,
                             !.writesPerTransactionB = 1,
                             !.extraReadConflictRangesPerTransaction = 1,
                             !.extraWriteConflictRangesPerTransaction = 1,
                             !.nodeCount = 1] }

Init == \E o \in RunOptions : Launch(o)

Next ==
    \/ \E w \in Actors : StartIteration(w)
    \/ \E w \in Actors : GetReadVersionReturn(w)
    \/ \E w \in Actors : GetReadVersionFail(w)
    \/ \E w \in Actors : ReadReturn(w)
    \/ \E w \in Actors : ReadFail(w)
    \/ \E w \in Actors : CommitReturn(w)
    \/ \E w \in Actors : CommitFail(w)
    \/ \E w \in Actors : OnErrorReturn(w)
    \/ \E w \in Actors : OnErrorThrow(w)
    \/ StartTimeout
    \/ Check
    \/ Tick

Spec == Init /\ [][Next]_vars

(* The same run with cancelWorkersAtDuration = false: the workers are kept *)
(* in self->clients until check().                                         *)
KeepOptions == { [o EXCEPT !.cancelWorkersAtDuration = FALSE] : o \in RunOptions }

InitKeep == \E o \in KeepOptions : Launch(o)

SpecKeep == InitKeep /\ [][Next]_vars

(* Workers kept until check() that only read: both transaction types are    *)
(* read-only, so an attempt ends at its last read.                          *)
KeepReadOptions == { [o EXCEPT !.writesPerTransactionB = 0] : o \in KeepOptions }

InitKeepRead == \E o \in KeepReadOptions : Launch(o)

NextKeepRead ==
    \/ \E w \in Actors : StartIteration(w)
    \/ \E w \in Actors : GetReadVersionReturn(w)
    \/ \E w \in Actors : GetReadVersionFail(w)
    \/ \E w \in Actors : ReadReturn(w)
    \/ \E w \in Actors : ReadFail(w)
    \/ \E w \in Actors : OnErrorReturn(w)
    \/ \E w \in Actors : OnErrorThrow(w)
    \/ StartTimeout
    \/ Check
    \/ Tick

SpecKeepRead == InitKeepRead /\ [][NextKeepRead]_vars

(* The same run with transactions of type B only, each of two parallel     *)
(* reads and one write.                                                     *)
BatchOptions ==
    { [o EXCEPT !.readsPerTransactionB = 2, !.alpha = << 1, 1 >>] : o \in RunOptions }

InitBatch == \E o \in BatchOptions : Launch(o)

(* The same transactions with their two reads in either mode of readOp.      *)
DependentOptions ==
    { [o EXCEPT !.dependentReads = d] : o \in BatchOptions, d \in BOOLEAN }

InitDependent == \E o \in DependentOptions : Launch(o)

(* Transactions of type B only, of one read and one write, over two keys    *)
(* and with values of one or two bytes.                                     *)
WriteOptions ==
    { [o EXCEPT !.alpha = << 1, 1 >>,
                !.nodeCount = 2,
                !.minValueBytes = 1,
                !.maxValueBytes = 2] : o \in RunOptions }

InitWrite == \E o \in WriteOptions : Launch(o)

\* The failures of this run are failures of the commit.
NextWrite ==
    \/ \E w \in Actors : StartIteration(w)
    \/ \E w \in Actors : GetReadVersionReturn(w)
    \/ \E w \in Actors : ReadReturn(w)
    \/ \E w \in Actors : CommitReturn(w)
    \/ \E w \in Actors : CommitFail(w)
    \/ \E w \in Actors : OnErrorReturn(w)
    \/ \E w \in Actors : OnErrorThrow(w)
    \/ StartTimeout
    \/ Check
    \/ Tick

SpecWrite == InitWrite /\ [][NextWrite]_vars

SpecBatch == InitBatch /\ [][Next]_vars
SpecDependent == InitDependent /\ [][Next]_vars

(* Inconsistent reads: read-only transactions on the shared cached read version. *)
InconsistentOptions ==
    { [DefaultOptions EXCEPT !.testDuration = 1,
                             !.discardEdgeMeasurements = FALSE,
                             !.metricsStart = 0,
                             !.metricsDuration = 1,
                             !.readsPerTransactionA = 1,
                             !.writesPerTransactionA = 0,
                             !.readsPerTransactionB = 1,
                             !.writesPerTransactionB = 0,
                             !.alpha = << 1, 1 >>,
                             !.inconsistentReads = TRUE] }

InitInconsistent == \E o \in InconsistentOptions : Launch(o)

NextInconsistent ==
    \/ \E w \in Actors : StartIteration(w)
    \/ \E id \in running : GetNextRVReturn(id)
    \/ \E id \in running : GetNextRVThrow(id)
    \/ StoreAdvance
    \/ \E w \in Actors : ReadReturn(w)
    \/ \E w \in Actors : ReadFail(w)
    \/ \E w \in Actors : OnErrorReturn(w)
    \/ \E w \in Actors : OnErrorThrow(w)
    \/ StartTimeout
    \/ Check
    \/ Tick

SpecInconsistent == InitInconsistent /\ [][NextInconsistent]_vars

(* The concurrency ramp: rampUpConcurrency with the two sweeps it requires, *)
(* over a run of four ticks in which nothing is recorded; actor 0 has the   *)
(* offset 0 and actor 1 the offset 1/2.                                     *)
RampOptions ==
    { [DefaultOptions EXCEPT !.testDuration = 4,
                             !.discardEdgeMeasurements = FALSE,
                             !.metricsStart = 0,
                             !.metricsDuration = 0,
                             !.readsPerTransactionA = 1,
                             !.writesPerTransactionA = 0,
                             !.readsPerTransactionB = 1,
                             !.writesPerTransactionB = 0,
                             !.alpha = << 1, 1 >>,
                             !.rampSweepCount = 2,
                             !.rampUpConcurrency = TRUE,
                             !.cancelWorkersAtDuration = c]
      : c \in BOOLEAN }

InitRamp == \E o \in RampOptions : Launch(o)

NextRamp ==
    \/ \E w \in Actors : RampDelayReturn(w)
    \/ \E w \in Actors : StartIteration(w)
    \/ \E w \in Actors : GetReadVersionReturn(w)
    \/ \E w \in Actors : GetReadVersionFail(w)
    \/ \E w \in Actors : ReadReturn(w)
    \/ \E w \in Actors : OnErrorReturn(w)
    \/ \E w \in Actors : OnErrorThrow(w)
    \/ StartTimeout
    \/ Check
    \/ Tick

SpecRamp == InitRamp /\ [][NextRamp]_vars

(* Periodic logging: read-only transactions over a run of two ticks with a  *)
(* tick of tracePeriodically at every tick of the clock; the recording      *)
(* window is the elapsed time [0, 2), so the interval of the first tick is  *)
(* inside it and the interval of the second tick ends outside it.           *)
TraceOptions ==
    { [DefaultOptions EXCEPT !.testDuration = 2,
                             !.discardEdgeMeasurements = FALSE,
                             !.metricsStart = 0,
                             !.metricsDuration = 2,
                             !.readsPerTransactionA = 1,
                             !.writesPerTransactionA = 0,
                             !.readsPerTransactionB = 1,
                             !.writesPerTransactionB = 0,
                             !.alpha = << 1, 1 >>,
                             !.enableReadLatencyLogging = TRUE,
                             !.periodicLoggingInterval = 1] }

InitTrace == \E o \in TraceOptions : Launch(o)

NextTrace ==
    \/ \E w \in Actors : StartIteration(w)
    \/ \E w \in Actors : GetReadVersionReturn(w)
    \/ \E w \in Actors : GetReadVersionFail(w)
    \/ \E w \in Actors : ReadReturn(w)
    \/ \E w \in Actors : OnErrorReturn(w)
    \/ \E w \in Actors : OnErrorThrow(w)
    \/ TracePeriodically
    \/ StartTimeout
    \/ Check
    \/ Tick

SpecTrace == InitTrace /\ [][NextTrace]_vars

(* The transaction mix: the type and the read and write counts that the     *)
(* worker loop derives from one draw of random01(), under the default       *)
(* options (10 reads / 0 writes for A, 1 read / 9 writes for B, alpha 0.1). *)
ChooseType(r) ==
    /\ r \notin DOMAIN typeLog
    /\ LET isA == ChooseATransaction(r, TypeAlpha(0))
       IN  typeLog' = typeLog @@ (r :> [ a |-> isA,
                                         reads |-> ReadsOf(isA),
                                         writes |-> WritesOf(isA) ])
    /\ UNCHANGED << configVars, now, counterVars, reservoirVars, actorVars, harnessVars,
                    rvVars, alphaLog, probe, traceVars, constructed, keyLog, blockLog, gate,
                    sample,
                    writeVars >>

InitMix == Launch(DefaultOptions)

NextMix == \E r \in Draws : ChooseType(r)

SpecMix == InitMix /\ [][NextMix]_vars

(* The recording window: metricsStart = 1 s and metricsDuration = 2 s are   *)
(* configured, every test duration of whole seconds, edge discard on or off.*)
WindowOptions ==
    { [DefaultOptions EXCEPT !.testDuration = Seconds(s),
                             !.metricsStart = Seconds(1),
                             !.metricsDuration = Seconds(2),
                             !.discardEdgeMeasurements = d]
      : s \in 1 .. MaxTestSeconds, d \in BOOLEAN }

WindowHorizon == Seconds(4)

\* Half a second passes.
Elapse ==
    /\ now - clientBegin < WindowHorizon
    /\ now' = now + HalfSeconds(1)
    /\ UNCHANGED << configVars, counterVars, reservoirVars, actorVars, harnessVars,
                    rvVars, logVars >>

\* if( self->shouldRecord( ... ) ) self->GRVLatencies.addSample( ... ), taken now.
Sample ==
    /\ (now - clientBegin) \notin DOMAIN probe
    /\ GRVLatencies' = Add(GRVLatencies, shouldRecord(now))
    /\ probe' = probe @@ ((now - clientBegin) :> (GRVLatencies' - GRVLatencies))
    /\ UNCHANGED << configVars, now, counterVars, latencies, readLatencies, commitLatencies,
                    fullReadLatencies, actorVars, harnessVars, rvVars, alphaLog, typeLog,
                    traceVars, constructed, keyLog, blockLog, gate,
                    sample, writeVars >>

InitWindow == \E o \in WindowOptions : Launch(o)

NextWindow == Elapse \/ Sample

SpecWindow == InitWindow /\ [][NextWindow]_vars

(* The ramp: sweepAlpha over a run of testDuration ticks and rampSweepCount *)
(* sweeps, evaluated by actor 0 at every tick of the run.                   *)
SweepOptions ==
    { [DefaultOptions EXCEPT !.testDuration = T,
                             !.metricsDuration = T,
                             !.rampSweepCount = n,
                             !.rampUpLoad = TRUE]
      : T \in 1 .. MaxSweepDuration, n \in 1 .. MaxSweepCount }

\* self->sweepAlpha( startTime ) of the load gate, evaluated now.
SampleSweepAlpha ==
    /\ (now - startTime[0]) \notin DOMAIN alphaLog
    /\ alphaLog' = alphaLog @@ ((now - startTime[0]) :> sweepAlpha(startTime[0]))
    /\ UNCHANGED << configVars, now, counterVars, reservoirVars, actorVars, harnessVars,
                    rvVars, typeLog, probe, traceVars, constructed, keyLog, blockLog, gate,
                    sample,
                    writeVars >>

InitSweep == \E o \in SweepOptions : Launch(o)

NextSweep == Tick \/ SampleSweepAlpha

SpecSweep == InitSweep /\ [][NextSweep]_vars
(* ======================================================================= *)
(*                               Properties                                *)
(* ======================================================================= *)
Failures(t) == t.commitFailures + t.otherFailures

\* C1: a transaction with writes that begins and ends inside the recording
\* window and whose only failures are k failed commits adds exactly k to
\* retries, exactly 1 to aTransactions + bTransactions and exactly one sample
\* to commitLatencies.
C1_CommitRetriesCounted ==
    \A w \in Actors :
        ( tx[w].done /\ writes[w] > 0 /\ tx[w].beganIn /\ tx[w].endedIn
          /\ tx[w].otherFailures = 0 )
        => ( /\ tx[w].retryIncs = tx[w].commitFailures
             /\ tx[w].successIncs = 1
             /\ tx[w].commitSamples = 1
             /\ tx[w].records = 1 )

C1_Witness ==
    \E w \in Actors :
        /\ tx[w].done /\ writes[w] > 0 /\ tx[w].beganIn /\ tx[w].endedIn
        /\ tx[w].otherFailures = 0 /\ tx[w].commitFailures = 1
        /\ tx[w].retryIncs = 1 /\ tx[w].commitSamples = 1

\* C2: a failure inside an attempt always leads to the wait on tr.onError(e);
\* a new attempt begins only when that wait has returned, and it begins at the
\* read-version request; the actor itself never refuses a retry.
C2_Step(w) ==
    /\ Failures(tx'[w]) > Failures(tx[w]) => pc'[w] = "onError"
    /\ ( tx[w].live /\ tx'[w].attempts > tx[w].attempts )
       => ( /\ pc[w] = "onError"
            /\ OnErrorRetries(err[w])
            /\ tx'[w].attempts = tx[w].attempts + 1
            /\ grvWait'[w] \in { "waited", "immediate", "threw" }
            /\ (~opt.inconsistentReads => pc'[w] = "grv")
            /\ readsDone'[w] = 0 )
    /\ ( pc[w] = "onError" /\ pc'[w] # "onError" )
       => ( \/ tx'[w].attempts = tx[w].attempts + 1
            \/ pc'[w] \in { "failed", "abandoned" } )
    /\ ( pc[w] # "reads" /\ pc'[w] = "reads" )
       => ( pc[w] = "grv" \/ (opt.inconsistentReads /\ grvWait'[w] = "immediate") )
    /\ ( pc[w] # "commit" /\ pc'[w] = "commit" ) => pc[w] = "reads"

C2_RetryAfterOnError ==
    /\ [][ \A w \in Actors : C2_Step(w) ]_vars
    /\ [] ( \A w \in Actors :
              ( pc[w] = "onError" /\ OnErrorRetries(err[w]) ) => ENABLED OnErrorReturn(w) )

C2_Witness ==
    \E w \in Actors : pc[w] = "grv" /\ tx[w].attempts = 2 /\ Failures(tx[w]) = 1

\* C3: an actor whose tr.onError(e) rethrew is never retried or counted, and
\* the result of start() carries the error whenever the actor failed while
\* start() was pending, with and without cancelWorkersAtDuration.
C3_FailurePropagates ==
    \A w \in Actors :
        pc[w] = "failed"
        => ( /\ ~tx[w].done
             /\ tx[w].successIncs = 0
             /\ ( w \in failedInStart /\ startResult # "running" ) => startResult = "error" )

\* C4: a transaction of a type with zero writes never calls set,
\* addReadConflictRange, addWriteConflictRange or commit, on any attempt, and
\* it is recorded when its last read has returned.
C4_ReadOnlyNeverCommits ==
    \A w \in Actors :
        ( tx[w].live /\ writes[w] = 0 )
        => ( /\ tx[w].setCalls = 0
             /\ tx[w].readConflictCalls = 0
             /\ tx[w].writeConflictCalls = 0
             /\ tx[w].commitCalls = 0
             /\ pc[w] # "commit"
             /\ tx[w].done => readsDone[w] = keys[w] )

C4_Witness ==
    \E w \in Actors :
        /\ tx[w].done /\ writes[w] = 0 /\ tx[w].attempts = 2
        /\ opt.extraReadConflictRangesPerTransaction > 0
        /\ opt.extraWriteConflictRangesPerTransaction > 0

(* ---- the transaction mix (SpecMix) ---- *)
\* Draws that chose the read-only transaction of 10 reads, and draws that chose
\* the transaction of 1 read and 9 writes.
TenReadDraws == { r \in DOMAIN typeLog : typeLog[r].reads = 10 /\ typeLog[r].writes = 0 }
NineWriteDraws == { r \in DOMAIN typeLog : typeLog[r].reads = 1 /\ typeLog[r].writes = 9 }

\* The share count / DrawGrid is within one grid step of the rational a.
ShareIsAbout(count, a) ==
    LET d == count * a[2] - a[1] * DrawGrid
    IN  d <= a[2] /\ -d <= a[2]

\* C5 (as the specification states it): over all the draws of [0,1), the share
\* that selects the read-only 10-read transaction is alpha and the share that
\* selects the 1-read 9-write transaction is 1 - alpha.
C5_ReadOnlyShareIsAlpha ==
    DOMAIN typeLog = Draws
    => ( /\ ShareIsAbout(Cardinality(TenReadDraws), opt.alpha)
         /\ ShareIsAbout(Cardinality(NineWriteDraws),
                         << opt.alpha[2] - opt.alpha[1], opt.alpha[2] >>) )

\* C5 (as the code behaves): a draw selects the read-only 10-read transaction
\* exactly when it is greater than alpha and the 1-read 9-write transaction
\* otherwise, so over all the draws of [0,1) the share of the 1-read 9-write
\* transaction is alpha and the share of the read-only transaction is 1 - alpha.
C5_ReadOnlyShareIsOneMinusAlpha ==
    /\ \A r \in DOMAIN typeLog :
          IF r * opt.alpha[2] > opt.alpha[1] * DrawGrid
          THEN r \in TenReadDraws /\ typeLog[r].a
          ELSE r \in NineWriteDraws /\ ~typeLog[r].a
    /\ DOMAIN typeLog = Draws
       => ( /\ ShareIsAbout(Cardinality(NineWriteDraws), opt.alpha)
            /\ ShareIsAbout(Cardinality(TenReadDraws),
                            << opt.alpha[2] - opt.alpha[1], opt.alpha[2] >>) )

C5_Witness ==
    /\ DOMAIN typeLog = Draws
    /\ TenReadDraws # {}
    /\ NineWriteDraws # {}
    /\ opt.alpha = << 1, 10 >>

(* ---- the recording window (SpecWindow) ---- *)
\* The samples at elapsed 0.5 s and 3.5 s were not added and the sample at
\* 2.0 s was added.
ScenarioWindow ==
    /\ HalfSeconds(1) \in DOMAIN probe => probe[HalfSeconds(1)] = 0
    /\ HalfSeconds(7) \in DOMAIN probe => probe[HalfSeconds(7)] = 0
    /\ Seconds(2) \in DOMAIN probe => probe[Seconds(2)] = 1

C7_OneRefreshOutstanding ==
    /\ Cardinality(running) <= 1
    /\ running \subseteq { nextRV.id }
    /\ (nextRV.state = "pending") = (running # {})

C7_Witness ==
    /\ refreshes >= 2
    /\ Cardinality(running) = 1
    /\ \E w \in Actors : grvWait[w] = "immediate"

\* An actor asks for a read version in this step (line 584).
Requests(w) == pc[w] \in { "pace", "onError" } /\ pc'[w] \in { "grv", "reads" }

\* C8 (as the specification states it): every request made while a refresh is outstanding is answered at
\* once with the cached version, also before the first refresh has returned.
C8_NeverWaits ==
    [][ \A w \in Actors :
          ( Requests(w) /\ running # {} )
          => ( grvWait'[w] = "immediate" /\ pc'[w] = "reads" /\ version'[w] = lastRV ) ]_vars

\* C8 (as the code behaves): a request made while a refresh is outstanding is answered at once
\* with the cached version when some refresh has returned before; while the first
\* refresh is outstanding the request waits for that refresh.
C8_CachedOnceRefreshed ==
    [][ \A w \in Actors :
          ( Requests(w) /\ running # {} )
          => IF completed > 0
             THEN /\ grvWait'[w] = "immediate" /\ pc'[w] = "reads"
                  /\ version'[w] = lastRV /\ lastRV # invalidVersion
                  /\ UNCHANGED << running, refreshes >>
             ELSE /\ grvWait'[w] = "waited" /\ pc'[w] = "grv"
                  /\ waitsOn'[w] \in running /\ refreshes = 1
                  /\ UNCHANGED << running, refreshes >> ]_vars

C8_Witness ==
    /\ running # {}
    /\ completed > 0
    /\ \E w \in Actors : grvWait[w] = "immediate" /\ pc[w] = "reads" /\ version[w] < storeVersion
    /\ \E w \in Actors : grvWait[w] = "waited" /\ version[w] # invalidVersion

(* ---- the ramp (SpecSweep) ---- *)
\* C9: over the run, sweepAlpha lies in [0,1]; it is 0 at elapsed time 0; on an
\* even sweep it is the fractional part of elapsed / sweepDuration and on an odd
\* sweep 1 minus that fractional part (sweepDuration = testDuration / rampSweepCount).
C9_SweepAlphaShape ==
    \A e \in DOMAIN alphaLog :
        LET a == alphaLog[e]
            T == opt.testDuration
            n == opt.rampSweepCount
            k == (e * n) \div T
            f == (e * n) % T
        IN  /\ a[2] > 0 /\ 0 <= a[1] /\ a[1] <= a[2]
            /\ e = 0 => a[1] = 0
            /\ k % 2 = 0 => a[1] * T = f * a[2]
            /\ k % 2 = 1 => a[1] * T = (T - f) * a[2]

C9_Witness ==
    /\ { 0, opt.testDuration } \subseteq DOMAIN alphaLog
    /\ \E e \in DOMAIN alphaLog :
          /\ ((e * opt.rampSweepCount) \div opt.testDuration) % 2 = 1
          /\ (e * opt.rampSweepCount) % opt.testDuration # 0
          /\ 0 < alphaLog[e][1] /\ alphaLog[e][1] < alphaLog[e][2]

\* Two logged times that lie m sweeps apart.
SweepsApart(t1, t2, m) ==
    /\ t1 \in DOMAIN alphaLog /\ t2 \in DOMAIN alphaLog
    /\ (t2 - t1) * opt.rampSweepCount = m * opt.testDuration

OneMinus(a) == << a[2] - a[1], a[2] >>

\* C10 (as the specification states it): with one sweep, sweepAlpha at half the
\* sweep is about 1, and sweepAlpha repeats after testDuration / rampSweepCount.
C10_PeriodIsOneSweep ==
    /\ ( opt.rampSweepCount = 1 /\ opt.testDuration % 2 = 0
         /\ (opt.testDuration \div 2) \in DOMAIN alphaLog )
       => RatLeq(<< 3, 4 >>, alphaLog[opt.testDuration \div 2])
    /\ \A t1, t2 \in DOMAIN alphaLog :
          SweepsApart(t1, t2, 1) => RatEq(alphaLog[t2], alphaLog[t1])

\* C10 (as the code behaves): with one sweep, sweepAlpha at half the sweep is 1/2
\* and reaches 1 at the end of the sweep; one sweep later sweepAlpha is mirrored,
\* sweepAlpha(t + testDuration / rampSweepCount) = 1 - sweepAlpha(t), and it
\* repeats after two sweeps, 2 * testDuration / rampSweepCount.
C10_PeriodIsTwoSweeps ==
    /\ ( opt.rampSweepCount = 1 /\ opt.testDuration % 2 = 0
         /\ (opt.testDuration \div 2) \in DOMAIN alphaLog )
       => RatEq(alphaLog[opt.testDuration \div 2], << 1, 2 >>)
    /\ ( opt.rampSweepCount = 1 /\ opt.testDuration \in DOMAIN alphaLog )
       => RatEq(alphaLog[opt.testDuration], << 1, 1 >>)
    /\ \A t1, t2 \in DOMAIN alphaLog :
          /\ SweepsApart(t1, t2, 1) => RatEq(alphaLog[t2], OneMinus(alphaLog[t1]))
          /\ SweepsApart(t1, t2, 2) => RatEq(alphaLog[t2], alphaLog[t1])

C10_Witness ==
    \E t1, t2, t3 \in DOMAIN alphaLog :
        /\ SweepsApart(t1, t2, 1)
        /\ SweepsApart(t1, t3, 2)
        /\ ~RatEq(alphaLog[t1], alphaLog[t2])
        /\ RatEq(alphaLog[t1], alphaLog[t3])

(* ---- the concurrency ramp (SpecRamp) ---- *)
\* The offset of actor w as a share of testDuration / 2, over Scale.
Scale == 2 * opt.clientCount * opt.actorCount
Offset(w) == w * opt.clientCount + opt.clientId
Elapsed(w) == now - startTime[w]

\* Actor w builds a transaction in this step.
StartsTransaction(w) == pc[w] = "pace" /\ tx'[w].live /\ tx'[w] # tx[w] /\ iter' = iter + 1

\* The part of C11 about one worker: a transaction is started only at an elapsed
\* time from testDuration/2 * f on and before testDuration/2 * (2 - f), and a
\* worker that has stopped stays stopped until it is cancelled.
RampKeepsActiveInterval ==
    \A w \in Actors :
        /\ StartsTransaction(w)
           => ( /\ Scale * Elapsed(w) >= opt.testDuration * Offset(w)
                /\ Scale * Elapsed(w) < opt.testDuration * (Scale - Offset(w)) )
        /\ pc[w] = "never" => pc'[w] \in { "never", "cancelled" }

\* The part of C11 about two workers, as events: a worker has started a
\* transaction only if every worker of smaller offset has, and a worker has
\* stopped only if every worker of larger offset has.
RampEventsInOffsetOrder ==
    \A v, w \in Actors :
        Offset(v) < Offset(w)
        => ( /\ ( tx'[w].live /\ pc'[v] \notin { "cancelled", "abandoned" } ) => tx'[v].live
             /\ ( pc'[v] = "never" /\ Live(pc'[w]) ) => pc'[w] = "never" )

\* C11 (as the specification states it): each worker starts transactions only
\* inside its interval and never after it stopped, and the workers start in
\* increasing order of f and stop in decreasing order of f.
C11_RampStartsAndStopsInOrder ==
    [][ RampKeepsActiveInterval /\ RampEventsInOffsetOrder ]_vars

\* C11 (as the code behaves): each worker starts transactions only inside its
\* interval [testDuration/2 * f, testDuration/2 * (2 - f)) and never after it
\* stopped; the interval of a worker of larger f lies inside the interval of
\* every worker of smaller f, so whenever a worker starts a transaction every
\* worker of smaller f has ended its start delay and has not reached its stop
\* time. The order of the first transactions and of the stops is not fixed.
C11_RampIntervalsNested ==
    [][ /\ RampKeepsActiveInterval
        /\ \A v, w \in Actors :
              ( Offset(v) < Offset(w) /\ StartsTransaction(w) /\ Live(pc[v]) )
              => ( RampStart(v) /\ ~RampStop(v) /\ pc[v] # "never" ) ]_vars

C11_Witness ==
    /\ pc[0] = "never"
    /\ pc[1] = "never"
    /\ iter >= 2
    /\ opt.rampUpConcurrency

(* ---- workers kept until check() (SpecKeep) ---- *)
\* C12 (as the specification states it): with cancelWorkersAtDuration = false no
\* worker starts a new transaction once the timer of the test duration has fired.
C12_NoStartAfterTimeout ==
    [][ \A w \in Actors : StartsTransaction(w) => startResult = "running" ]_vars

\* C12 (as the code behaves): with cancelWorkersAtDuration = false the timer of
\* the test duration ends start() and leaves every worker as it is; the workers
\* go on, starting new transactions too, until check() drops them, and after
\* check() no worker is left and no transaction is started.
C12_WorkersRunUntilCheck ==
    [][ /\ ( startResult = "running" /\ startResult' = "ok" )
           => ( pc' = pc /\ tx' = tx )
        /\ \A w \in Actors : StartsTransaction(w) => ( ~checked /\ ~checked' )
        /\ checked' => \A w \in Actors : ~Live(pc'[w]) ]_vars

C12_Witness ==
    /\ ~opt.cancelWorkersAtDuration
    /\ startResult = "ok"
    /\ \E w \in Actors : tx[w].late /\ tx[w].done /\ now - clientBegin >= opt.testDuration

(* ---- workers cancelled at the test duration (Spec) ---- *)
\* C13: with cancelWorkersAtDuration = true the timer ends start() at elapsed
\* time testDuration whatever the workers are doing, every worker is dropped in
\* that step, and once start() has ended no counter and no reservoir changes and
\* no worker takes a step.
C13_WorkersAbandonedAtTimeout ==
    [][ /\ ( startResult = "running" /\ startResult' = "ok" )
           => ( /\ now - clientBegin = opt.testDuration
                /\ \A w \in Actors : ~Live(pc'[w]) )
        /\ startResult # "running"
           => ( /\ UNCHANGED << counterVars, reservoirVars >>
                /\ UNCHANGED << pc, tx, iter >> ) ]_vars

C13_Witness ==
    /\ opt.cancelWorkersAtDuration
    /\ startResult = "ok"
    /\ checked
    /\ \E w \in Actors : pc[w] = "abandoned"
    /\ latencies > 0

(* ---- periodic logging (SpecTrace) ---- *)
\* tracePeriodically takes a turn of its loop in this step.
TraceStep == elapsed' # elapsed

ReservoirsEmpty ==
    /\ latencies = 0 /\ readLatencies = 0 /\ fullReadLatencies = 0
    /\ GRVLatencies = 0 /\ commitLatencies = 0

\* C14: aTransactions, bTransactions and retries never decrease: a step of a
\* worker leaves each of them or adds one to it, and a tick of tracePeriodically
\* empties the five reservoirs and leaves the three counters unchanged.
C14_CountersNeverDecrease ==
    [][ /\ aTransactions' >= aTransactions
        /\ bTransactions' >= bTransactions
        /\ retries' >= retries
        /\ IF TraceStep
           THEN UNCHANGED counterVars /\ ReservoirsEmpty'
           ELSE /\ aTransactions' - aTransactions \in { 0, 1 }
                /\ bTransactions' - bTransactions \in { 0, 1 }
                /\ retries' - retries \in { 0, 1 } ]_vars

C14_Witness ==
    /\ elapsed > 2 * opt.periodicLoggingInterval
    /\ bTransactions > 0
    /\ retries > 0
    /\ ReservoirsEmpty
    /\ Len(periodicMetrics) > 0

(* ---------------- the constructor's assertions (SpecConstruct) --------- *)
\* Fractions on a grid that reaches below 0 and above 1.
HotFractions == { << n, HotGrid >> : n \in -1 .. (HotGrid + 1) }

ConstructOptions ==
    { [DefaultOptions EXCEPT !.hotKeyFraction = k,
                             !.hotTrafficFraction = t,
                             !.rampUpConcurrency = c,
                             !.rampSweepCount = n] :
        k \in HotFractions, t \in HotFractions, c \in BOOLEAN, n \in 1 .. MaxSweepCount }

\* The workload before its constructor has run: options chosen, nothing built.
Unbuilt(o) ==
    /\ opt = o
    /\ constructed = "pending"
    /\ metricsStart = o.metricsStart
    /\ metricsDuration = o.metricsDuration
    /\ clientBegin = 1
    /\ now = clientBegin
    /\ aTransactions = 0 /\ bTransactions = 0 /\ retries = 0
    /\ latencies = 0 /\ readLatencies = 0 /\ commitLatencies = 0
    /\ GRVLatencies = 0 /\ fullReadLatencies = 0
    /\ pc = [w \in Actors |-> "unbuilt"]
    /\ startTime = [w \in Actors |-> now]
    /\ tstart = [w \in Actors |-> now]
    /\ aTransaction = [w \in Actors |-> FALSE]
    /\ writes = [w \in Actors |-> 0]
    /\ keys = [w \in Actors |-> 0]
    /\ issued = [w \in Actors |-> 0]
    /\ readsDone = [w \in Actors |-> 0]
    /\ readRecord = [w \in Actors |-> FALSE]
    /\ err = [w \in Actors |-> "none"]
    /\ successRetries = 0
    /\ iter = 0
    /\ tx = [w \in Actors |-> NoTx]
    /\ faults = 0
    /\ startResult = "running"
    /\ failedInStart = {}
    /\ checked = FALSE
    /\ nextRV = NoRefresh
    /\ lastRV = invalidVersion
    /\ storeVersion = 1
    /\ refreshes = 0
    /\ running = {}
    /\ completed = 0
    /\ waitsOn = [w \in Actors |-> 0]
    /\ version = [w \in Actors |-> invalidVersion]
    /\ grvWait = [w \in Actors |-> "none"]
    /\ alphaLog = << >>
    /\ typeLog = << >>
    /\ probe = << >>
    /\ periodicMetrics = << >>
    /\ last_ops = 0
    /\ elapsed = o.periodicLoggingInterval
    /\ keyLog = NoKey
    /\ blockLog = NoBlock
    /\ gate = NoGate
    /\ sample = NoSamples
    /\ values = [w \in Actors |-> << >>]
    /\ written = [w \in Actors |-> << >>]

\* ReadWriteWorkload(): a failed ASSERT ends the constructor, otherwise the
\* recording window is set.
Construct ==
    /\ constructed = "pending"
    /\ IF ConstructorAsserts(opt)
       THEN /\ constructed' = "ok"
            /\ metricsStart' = ConstructedMetricsStart(opt)
            /\ metricsDuration' = ConstructedMetricsDuration(opt)
       ELSE /\ constructed' = "failed"
            /\ UNCHANGED << metricsStart, metricsDuration >>
    /\ UNCHANGED << opt, clientBegin, now, counterVars, reservoirVars, actorVars,
                    harnessVars, rvVars, alphaLog, typeLog, probe, traceVars, keyLog,
                    blockLog, gate, sample, writeVars >>

\* _start() of a constructed workload launches the actorCount clients.
StartClients ==
    /\ constructed = "ok"
    /\ \A w \in Actors : pc[w] = "unbuilt"
    /\ pc' = [w \in Actors |-> IF opt.rampUpConcurrency THEN "ramp" ELSE "pace"]
    /\ UNCHANGED << configVars, now, counterVars, reservoirVars, startTime, tstart,
                    aTransaction, writes, keys, issued, readsDone, readRecord, err,
                    successRetries, iter, tx, faults, waitsOn, version, grvWait,
                    harnessVars, rvVars, logVars >>

InitConstruct == \E o \in ConstructOptions : Unbuilt(o)
NextConstruct == Construct \/ StartClients
SpecConstruct == InitConstruct /\ [][NextConstruct]_vars

\* C15: once the constructor has run it has failed exactly when
\* 0 <= hotKeyFraction <= hotTrafficFraction <= 1 is broken or rampUpConcurrency
\* is set with a rampSweepCount other than 2, and after a failure no client is
\* ever started.
C15_AssertsAreTheTwoInvariants ==
    LET k == opt.hotKeyFraction
        t == opt.hotTrafficFraction
        ordered == 0 <= k[1] /\ k[1] * t[2] <= t[1] * k[2] /\ t[1] <= t[2]
        ramped == (~opt.rampUpConcurrency) \/ opt.rampSweepCount = 2
    IN /\ constructed = "ok" => ordered /\ ramped
       /\ constructed = "failed" => ~(ordered /\ ramped)
       /\ constructed # "ok" => \A w \in Actors : pc[w] = "unbuilt"

\* A constructor that failed only because hotKeyFraction exceeds hotTrafficFraction.
C15_Witness ==
    /\ constructed = "failed"
    /\ ~opt.rampUpConcurrency
    /\ RatLeq(<< 0, 1 >>, opt.hotTrafficFraction)
    /\ RatLess(opt.hotTrafficFraction, opt.hotKeyFraction)
    /\ RatLeq(opt.hotKeyFraction, << 1, 1 >>)

(* --------------------- hot and cold keys (SpecHot) -------------------- *)
\* keys.push_back( self->getRandomKey( self->nodeCount ) )
GetRandomKeyCall ==
    /\ constructed = "ok"
    /\ \E r \in Draws : \E key \in getRandomKey(opt, opt.nodeCount, r) : keyLog' = key
    /\ UNCHANGED << configVars, now, counterVars, reservoirVars, actorVars, harnessVars,
                    rvVars, alphaLog, typeLog, probe, traceVars, constructed, blockLog, gate,
                    sample, writeVars >>

\* Every configuration of the grid that the constructor accepts.
HotOptions ==
    { o \in { [DefaultOptions EXCEPT !.hotKeyFraction = k,
                                     !.hotTrafficFraction = t,
                                     !.nodeCount = n] :
                k \in HotFractions, t \in HotFractions, n \in 1 .. MaxNodes } :
        ConstructorAsserts(o) }

InitHot == \E o \in HotOptions : Launch(o)
NextHot == GetRandomKeyCall
SpecHot == InitHot /\ [][NextHot]_vars

\* C16: with hotKeyFraction == 0 the hot-key logic is off for every permitted
\* hotTrafficFraction: forceHotProbability is zero, getRandomKey never takes the
\* hot branch, never divides by hotKeyFraction, and returns an index of
\* [0, nodeCount).
C16_HotLogicOffAtZero ==
    opt.hotKeyFraction[1] = 0
        => /\ forceHotProbability(opt)[1] = 0
           /\ keyLog.branch # "hot"
           /\ keyLog # NoKey => keyLog.defined /\ keyLog.index \in 0 .. (opt.nodeCount - 1)

\* C17: a batch of parallel reads is all-or-nothing.  A read that fails ends
\* the attempt with no set and no commit; the retry waits on tr.onError(e),
\* begins at the read-version request and issues every read of the batch again;
\* set and commit are called only when every read of the attempt has returned.
C17_Step(w) ==
    /\ ( pc[w] = "reads" /\ Failures(tx'[w]) > Failures(tx[w]) )
       => ( /\ pc'[w] = "onError"
            /\ tx'[w].setCalls = tx[w].setCalls
            /\ tx'[w].commitCalls = tx[w].commitCalls )
    /\ ( pc[w] = "onError" /\ tx'[w].attempts > tx[w].attempts )
       => ( pc'[w] = "grv" /\ readsDone'[w] = 0 /\ issued'[w] = 0 )
    /\ ( pc[w] = "grv" /\ pc'[w] = "reads" ) => ( issued'[w] = keys[w] /\ readsDone'[w] = 0 )
    /\ ( tx'[w].setCalls > tx[w].setCalls \/ tx'[w].commitCalls > tx[w].commitCalls )
       => ( /\ pc[w] = "reads" /\ pc'[w] = "commit"
            /\ readsDone'[w] = keys[w]
            /\ err[w] = "none" )

C17_BatchIsAllOrNothing == [][ \A w \in Actors : C17_Step(w) ]_vars

\* An attempt that lost its second read after the first had returned was
\* retried, and the retry has read both keys and is committing.
C17_Witness ==
    \E w \in Actors :
        /\ pc[w] = "commit" /\ keys[w] = 2 /\ readsDone[w] = 2
        /\ tx[w].attempts = 2 /\ tx[w].otherFailures = 1 /\ tx[w].readsBeforeFailure = 1
        /\ tx[w].setCalls = 1 /\ tx[w].commitCalls = 1

(* ------------------- a latency reservoir (SpecReservoir) --------------- *)
\* The latencies offered to the reservoir: more values than it has slots.
Latencies == 1 .. (SampleCapacity + 1)

\* A reservoir that starts to replace one sample early.
HasRoomBelowOne(s) == Len(s.samples) < SampleCapacity - 1

\* The reservoir still has a free slot.
HasRoom(s) == Len(s.samples) < SampleCapacity

\* addSample(value): below capacity the value is retained; at capacity it
\* replaces the sample of a random slot, or is dropped (slot 0).
AddSample(v) ==
    /\ Len(sample.offered) < MaxOffers
    /\ \E slot \in 0 .. Len(sample.samples) :
         sample' = [ samples |-> IF HasRoom(sample)
                                 THEN Append(sample.samples, v)
                                 ELSE IF slot = 0
                                 THEN sample.samples
                                 ELSE [sample.samples EXCEPT ![slot] = v],
                     populationSize |-> sample.populationSize + 1,
                     offered |-> Append(sample.offered, v) ]
    /\ UNCHANGED << configVars, now, counterVars, reservoirVars, actorVars, harnessVars,
                    rvVars, alphaLog, typeLog, probe, traceVars, constructed, keyLog,
                    blockLog, gate, writeVars >>

\* clear(): the retained samples are discarded and the count starts again.
ClearSample ==
    /\ sample # NoSamples
    /\ sample' = NoSamples
    /\ UNCHANGED << configVars, now, counterVars, reservoirVars, actorVars, harnessVars,
                    rvVars, alphaLog, typeLog, probe, traceVars, constructed, keyLog,
                    blockLog, gate, writeVars >>

InitReservoir == Launch(DefaultOptions)
NextReservoir == (\E v \in Latencies : AddSample(v)) \/ ClearSample
SpecReservoir == InitReservoir /\ [][NextReservoir]_vars

Count(seq, v) == Cardinality({ i \in DOMAIN seq : seq[i] = v })

\* C18: after N addSample calls since the last clear(), a reservoir of
\* capacity C retains exactly the offered samples when N <= C, and exactly C
\* samples, each of them an offered one, when N > C.
C18_ReservoirRetainsOffered ==
    LET N == Len(sample.offered)
    IN /\ sample.populationSize = N
       /\ N <= SampleCapacity
          => \A v \in Latencies : Count(sample.samples, v) = Count(sample.offered, v)
       /\ N > SampleCapacity
          => /\ Len(sample.samples) = SampleCapacity
             /\ \A i \in DOMAIN sample.samples :
                  \E j \in DOMAIN sample.offered : sample.samples[i] = sample.offered[j]

\* A full reservoir in which a later sample has replaced an earlier one.
C18_Witness ==
    /\ Len(sample.offered) > SampleCapacity
    /\ Len(sample.samples) = SampleCapacity
    /\ sample.samples # SubSeq(sample.offered, 1, SampleCapacity)

\* The attempt of actor w is waiting for the last read before its writes.
AboutToWrite(w) ==
    /\ pc[w] = "reads" /\ readsDone[w] < issued[w]
    /\ ~ReadersOutstanding(w) /\ ~ReadOnly(w)

\* C19 (as the specification states it): the write keys of a transaction are
\* selected once per loop iteration, and every retry writes to the same keys,
\* paired with the same values, as the first attempt.
C19_RetryWritesSameKeys ==
    [][ \A w \in Actors :
          tx'[w].setCalls > tx[w].setCalls
          => ( written'[w] = tx'[w].firstWritten /\ values'[w] = values[w] ) ]_vars

\* C19 (as the code behaves): the values are selected once per loop iteration
\* and every retry writes the same values; the write keys are not selected
\* when the iteration starts but drawn by getRandomKey inside each attempt,
\* when it reaches its writes, so a retry can write to other keys than the
\* first attempt.
C19_Step(w) ==
    /\ ( InTransaction(pc[w]) /\ pc'[w] \in { "grv", "reads", "commit", "onError", "pace" } )
       => values'[w] = values[w]
    /\ StartsTransaction(w) => ( written'[w] = << >> /\ Len(values'[w]) = writes'[w] )
    /\ written'[w] # written[w]
       => ( tx'[w].setCalls > tx[w].setCalls \/ written'[w] = << >> )
    /\ tx'[w].setCalls > tx[w].setCalls
       => ( /\ pc[w] = "reads" /\ pc'[w] = "commit"
            /\ Len(written'[w]) = writes[w]
            /\ \A i \in DOMAIN written'[w] : written'[w][i] \in 0 .. (opt.nodeCount - 1) )

C19_RetryDrawsKeysAnew ==
    /\ [][ \A w \in Actors : C19_Step(w) ]_vars
    /\ [] ( \A w \in Actors :
              ( AboutToWrite(w) /\ tx[w].firstWritten # << >> )
              => ENABLED ( ReadReturn(w) /\ written'[w] # tx[w].firstWritten ) )

\* A retry after a failed commit is committing another key than the first
\* attempt has set.
C19_Witness ==
    \E w \in Actors :
        /\ pc[w] = "commit" /\ tx[w].commitFailures = 1 /\ tx[w].attempts = 2
        /\ tx[w].setCalls = 2
        /\ written[w] # tx[w].firstWritten

(* ---- the periodic snapshots (SpecTrace) ---- *)
\* The interval that ends at this tick began and ends inside the recording window.
IntervalInsideWindow ==
    LET end == now - clientBegin
        begin == Max(now - opt.periodicLoggingInterval, clientBegin) - clientBegin
    IN /\ begin >= metricsStart
       /\ end >= metricsStart /\ end < metricsStart + metricsDuration

\* The last snapshot holds the tag, the counter delta and what the five
\* reservoirs held before the tick.
SnapshotAppended ==
    /\ Len(periodicMetrics') = Len(periodicMetrics) + 1
    /\ SubSeq(periodicMetrics', 1, Len(periodicMetrics)) = periodicMetrics
    /\ LET m == periodicMetrics'[Len(periodicMetrics')]
       IN /\ m.ts = elapsed
          /\ m.ops = << Ops - last_ops, opt.periodicLoggingInterval >>
          /\ m.latencies = latencies /\ m.readLatencies = readLatencies
          /\ m.fullReadLatencies = fullReadLatencies
          /\ m.GRVLatencies = GRVLatencies /\ m.commitLatencies = commitLatencies

\* C20 (as the specification states it): every tick appends a snapshot tagged
\* with the elapsed time and then clears the reservoirs, so that no sample is
\* cleared without having been included in a periodic snapshot.
C20_EveryTickSnapshots ==
    [][ TraceStep => ( SnapshotAppended /\ ReservoirsEmpty' ) ]_vars

\* C20 (as the code behaves): a tick appends a snapshot only when its interval
\* began and ends inside the recording window; every tick, with or without a
\* snapshot, then clears the reservoirs, so the samples of an interval that is
\* not wholly inside the window are cleared without a periodic snapshot.
C20_TickSnapshotsInsideWindow ==
    [][ TraceStep
        => ( /\ IF IntervalInsideWindow
                THEN SnapshotAppended
                ELSE periodicMetrics' = periodicMetrics
             /\ ReservoirsEmpty'
             /\ last_ops' = Ops
             /\ elapsed' = elapsed + opt.periodicLoggingInterval ) ]_vars

\* One tick has appended a snapshot with a sample in it, and a sample of
\* another transaction has been cleared without a snapshot.
C20_Witness ==
    /\ Len(periodicMetrics) = 1
    /\ periodicMetrics[1].latencies > 0
    /\ aTransactions + bTransactions > periodicMetrics[1].latencies + latencies


(* ------------------- key indexes of a transaction (SpecKeys) ---------- *)
\* for(op < reads) keys.push_back(...): the read keys of one transaction.
BuildReadKeys ==
    /\ constructed = "ok"
    /\ \E a \in BOOLEAN : \E ks \in ReadKeyChoices(ReadsOf(a)) :
         blockLog' = [ op |-> "read", adjacent |-> opt.adjacentReads, indexes |-> ks ]
    /\ UNCHANGED << configVars, now, counterVars, reservoirVars, actorVars, harnessVars,
                    rvVars, alphaLog, typeLog, probe, traceVars, constructed, keyLog,
                    gate, sample, writeVars >>

\* for(op < writes) tr.set( keyForIndex(...) ): the write keys of one attempt.
BuildWriteKeys ==
    /\ constructed = "ok"
    /\ \E a \in BOOLEAN :
         /\ WritesOf(a) > 0
         /\ \E ks \in WriteKeys(WritesOf(a)) :
              blockLog' = [ op |-> "write", adjacent |-> opt.adjacentWrites, indexes |-> ks ]
    /\ UNCHANGED << configVars, now, counterVars, reservoirVars, actorVars, harnessVars,
                    rvVars, alphaLog, typeLog, probe, traceVars, constructed, keyLog,
                    gate, sample, writeVars >>

\* Small key spaces, and key spaces a few indexes beyond what an int holds.
KeyNodeCounts == { 2, 3, 2^(IntBits - 1) + 1, 2^(IntBits - 1) + 2 }

\* 0 < reads, writes < nodeCount and 0 < hotKeyFraction < 1, on the grid; in
\* the large key spaces the blocks of independent keys have one key.
KeyOptions ==
    { o \in { [DefaultOptions EXCEPT !.hotKeyFraction = k,
                                     !.hotTrafficFraction = t,
                                     !.nodeCount = n,
                                     !.readsPerTransactionA = c,
                                     !.readsPerTransactionB = c,
                                     !.writesPerTransactionA = c,
                                     !.writesPerTransactionB = c,
                                     !.adjacentReads = adj,
                                     !.adjacentWrites = adj] :
                k \in HotFractions, t \in HotFractions, n \in KeyNodeCounts,
                c \in 1 .. 2, adj \in BOOLEAN } :
        /\ ConstructorAsserts(o)
        /\ 0 < o.hotKeyFraction[1] /\ o.hotKeyFraction[1] < o.hotKeyFraction[2]
        /\ o.readsPerTransactionA < o.nodeCount
        /\ o.adjacentReads \/ o.readsPerTransactionA = 1 \/ o.nodeCount <= 3 }

InitKeys == \E o \in KeyOptions : Launch(o)
NextKeys == GetRandomKeyCall \/ BuildReadKeys \/ BuildWriteKeys
SpecKeys == InitKeys /\ [][NextKeys]_vars

InKeySpace(i) == i \in 0 .. (opt.nodeCount - 1)

\* C21: every logical key index used by a transaction lies in [0, nodeCount):
\* each index returned by getRandomKey(nodeCount), on the hot and on the
\* uniform branch, each index of an adjacent-read block and each index of an
\* adjacent-write block, whenever 0 < reads, writes < nodeCount and
\* 0 < hotKeyFraction < 1.
C21_IndexesInKeySpace ==
    /\ keyLog # NoKey => InKeySpace(keyLog.index)
    /\ \A op \in DOMAIN blockLog.indexes : InKeySpace(blockLog.indexes[op])


(* ---------------------- readOp (SpecDependent) -------------------------- *)
\* readOp returns to line 596 with no error.
ReadOpCompletes(w) ==
    /\ pc[w] = "reads"
    /\ pc'[w] = "commit" \/ tx'[w].records > tx[w].records

C22_Step(w) ==
    /\ opt.dependentReads
       => /\ ( pc[w] = "reads" /\ issued'[w] > issued[w] )
             => ( issued'[w] = issued[w] + 1 /\ readsDone'[w] = issued[w] )
          /\ pc'[w] = "reads" => issued'[w] - readsDone'[w] <= 1
    /\ ~opt.dependentReads
       => ( pc'[w] = "reads" => issued'[w] = keys'[w] )
    /\ ReadOpCompletes(w) => ( readsDone'[w] = keys[w] /\ issued[w] = keys[w] )

\* C22: with dependentReads readOp issues the reads of a transaction one after
\* another in key-list order: read i+1 is issued only after read i has
\* completed, so at most one read of a transaction is outstanding; without
\* dependentReads every read is issued before any is awaited; in both modes
\* readOp completes only when all its reads have completed.
C22_ReadsInTurn == [][ \A w \in Actors : C22_Step(w) ]_vars

\* A dependent transaction whose second read is outstanding after its first
\* has completed.
C22_Witness ==
    /\ opt.dependentReads
    /\ \E w \in Actors :
         pc[w] = "reads" /\ keys[w] = 2 /\ issued[w] = 2 /\ readsDone[w] = 1


(* ------------------------- the load ramp (SpecLoad) --------------------- *)
(* Read-only transactions under rampUpLoad, or else rampTransactionType,    *)
(* over a recorded run of four ticks and two sweeps: sweepAlpha is 0, 1/2,  *)
(* 1, 1/2 at the elapsed times 0, 1, 2, 3.  The static alpha is 1/2.        *)
LoadOptions ==
    { [DefaultOptions EXCEPT !.testDuration = 4,
                             !.discardEdgeMeasurements = FALSE,
                             !.metricsStart = 0,
                             !.metricsDuration = 4,
                             !.readsPerTransactionA = 1,
                             !.writesPerTransactionA = 0,
                             !.readsPerTransactionB = 1,
                             !.writesPerTransactionB = 0,
                             !.alpha = << 1, 2 >>,
                             !.rampSweepCount = 2,
                             !.rampUpLoad = l,
                             !.rampTransactionType = ~l]
      : l \in BOOLEAN }

InitLoad == \E o \in LoadOptions : Launch(o)

NextLoad ==
    \/ \E w \in Actors : StartIteration(w)
    \/ \E w \in Actors : GetReadVersionReturn(w)
    \/ \E w \in Actors : ReadReturn(w)
    \/ StartTimeout
    \/ Check
    \/ Tick

SpecLoad == InitLoad /\ [][NextLoad]_vars

\* Actor w comes out of its pacing wait and reaches the test of line 538.
Iterates(w) == pc[w] = "pace" /\ iter' = iter + 1 /\ gate'.w = w

C23_Step(w) ==
    LET alpha == sweepAlpha(startTime[w])
    IN  Iterates(w)
        => /\ opt.rampUpLoad
              => /\ StartsTransaction(w) <=> RatLess(Draw01(gate'.load), alpha)
                 /\ ~StartsTransaction(w)
                    => UNCHANGED << counterVars, reservoirVars, rvVars, pc, tx, issued,
                                    readsDone, tstart, aTransaction, keys, writes,
                                    successRetries, writeVars >>
                 /\ Elapsed(w) = 0 => ~StartsTransaction(w)
           /\ ( StartsTransaction(w) /\ opt.rampTransactionType )
              => ( aTransaction'[w] <=> RatLess(alpha, Draw01(gate'.type)) )

\* C23: with rampUpLoad a loop iteration builds and executes a transaction if
\* and only if its random01() draw is strictly less than sweepAlpha of the
\* elapsed time; an iteration whose draw fails the test issues no store
\* operation and changes no counter and no reservoir, and at elapsed time 0,
\* where sweepAlpha is 0, no iteration executes.  With rampTransactionType the
\* type is decided against sweepAlpha of the elapsed time instead of alpha.
C23_LoadFollowsSweep == [][ \A w \in Actors : C23_Step(w) ]_vars

\* An iteration has been skipped on a draw of at least sweepAlpha and a later
\* one, on a draw below sweepAlpha, is executing its transaction.
C23_Witness ==
    /\ opt.rampUpLoad
    /\ iter = 2
    /\ \E w \in Actors :
         /\ gate.w = w /\ tx[w].live /\ ~tx[w].done
         /\ gate.load # NoDraw
         /\ RatLess(Draw01(gate.load), sweepAlpha(startTime[w]))
         /\ \A v \in Actors \ {w} : ~tx[v].live /\ ~tx[v].done


(* ------------------ successes and their latency (SpecTally) ------------ *)
(* The run of SpecTrace with both types of transaction and no failure: type *)
(* A reads one key, type B reads one key and writes one.                     *)
TallyOptions ==
    { [o EXCEPT !.alpha = << 1, 2 >>, !.writesPerTransactionB = 1, !.nodeCount = 1] :
        o \in TraceOptions }

InitTally == \E o \in TallyOptions : Launch(o)

NextTally ==
    \/ \E w \in Actors : StartIteration(w)
    \/ \E w \in Actors : GetReadVersionReturn(w)
    \/ \E w \in Actors : ReadReturn(w)
    \/ \E w \in Actors : CommitReturn(w)
    \/ TracePeriodically
    \/ StartTimeout
    \/ Check
    \/ Tick

SpecTally == InitTally /\ [][NextTally]_vars

\* A transaction of some actor completes in this step (lines 641-657).
Completes == \E w \in Actors : tx'[w].records > tx[w].records

C24_Step ==
    LET da == aTransactions' - aTransactions
        db == bTransactions' - bTransactions
        dl == latencies' - latencies
    IN  IF TraceStep
        THEN latencies' = 0 /\ da = 0 /\ db = 0
        ELSE /\ da >= 0 /\ db >= 0 /\ da + db <= 1
             /\ dl = da + db
             /\ ~Completes => dl = 0

\* C24: under any interleaving of the workers and the periodic timer, the
\* number of samples ever offered to the total-latency reservoir, counted
\* across its clears, equals aTransactions + bTransactions: a completed
\* transaction increments exactly one of the two counters and adds exactly
\* one sample, or does neither, and nothing else adds a sample or increments
\* a counter; a clear leaves the counters as they are.
C24_LatencySamplesMatchSuccesses ==
    /\ [](latencies <= aTransactions + bTransactions)
    /\ [][C24_Step]_vars

\* A transaction of type A has been counted and sampled, the reservoir has
\* been cleared, and a transaction of type B has committed outside the window
\* and has been neither counted nor sampled.
C24_Witness ==
    /\ aTransactions = 1 /\ bTransactions = 0
    /\ latencies = 0
    /\ elapsed > opt.periodicLoggingInterval
    /\ \E w \in Actors :
         /\ tx[w].done /\ ~aTransaction[w] /\ tx[w].commitCalls = 1
         /\ tx[w].records = 1 /\ tx[w].successIncs = 0


(* ------------------- the success record (Spec) -------------------------- *)
\* transactionSuccessMetric->log() of line 648 for a transaction of actor w.
LogsSuccess(w) == tx'[w].records > tx[w].records

\* The retries of the transaction actor w is executing: one per tr.onError
\* that has returned.
OwnRetries(w) == tx[w].attempts - 1

\* C25: with two workers running concurrently, the retry count written in a
\* transaction's success record when it completes is the number of retries of
\* that same transaction; the retries that the overlapping transactions of the
\* other worker perform or reset do not affect it.  (The commit latency of the
\* record is a field of the same shared object and is not modelled.)
C25_SuccessRecordIsOwn ==
    [][ \A w \in Actors : LogsSuccess(w) => successRetries = OwnRetries(w) ]_vars


(* ------------- versions handed out (SpecInconsistent) ------------------- *)
\* Actor w receives the version of line 584 in this step and passes it to
\* setVersion: at once from its call, or as the result of the refresh it
\* has waited for.
Receives(w) == pc[w] \in { "pace", "onError", "grv" } /\ pc'[w] = "reads"

\* The result of the refresh that completed last: the future nextRV when it
\* is ready, and otherwise lastRV, taken from the previous future by the
\* call that started the refresh now outstanding.
MostRecentRefresh == IF nextRV.state = "ready" THEN nextRV.v ELSE lastRV

C26_Step(w) ==
    Receives(w)
    => /\ version'[w] # invalidVersion
       /\ IF pc[w] = "grv"
          THEN /\ completed = 0 /\ completed' = 1
               /\ nextRV'.state = "ready" /\ version'[w] = nextRV'.v
          ELSE /\ completed > 0
               /\ version'[w] = MostRecentRefresh
       /\ \A v \in Actors : version[v] <= version'[w]

\* C26: with inconsistentReads every version that a worker receives from
\* getInconsistentReadVersion and passes to setVersion is the result of a
\* completed getNextRV refresh and never invalidVersion; when a refresh had
\* completed at the time of the call it is the result of the refresh that
\* completed last; and, the store's read versions not decreasing, the versions
\* handed out never decrease.
C26_VersionsFromRefreshes ==
    /\ [][ \A w \in Actors : C26_Step(w) ]_vars
    /\ [][ lastRV' >= lastRV ]_vars
    /\ [](\A w \in Actors : pc[w] = "grv" => completed = 0)

\* Two refreshes have completed on a store that advanced in between: one
\* worker holds the version of the first and the other, on its retry, has been
\* handed the version of the second at once.
C26_Witness ==
    /\ completed = 2
    /\ \E w, v \in Actors :
         /\ version[v] = 1
         /\ version[w] = 2 /\ grvWait[w] = "immediate" /\ pc[w] = "reads"
         /\ tx[w].attempts = 2


====
